---------------------------- MODULE Spec2Model ----------------------------
(***************************************************************************)
(* one_sift: request admission, tenant isolation, tenant provisioning and  *)
(* API keys.                                                               *)
(*                                                                         *)
(* The specifications share the variables of this module:                  *)
(*   SpecLimiter   - RateLimiter.isAllowed / createMiddleware run by       *)
(*                   concurrent requests against the shared Redis counter  *)
(*                   store (src/src/api/middleware/rate-limit.ts).         *)
(*   SpecVerify    - authenticate, verifyTenant and authenticateToken      *)
(*                   applied to one request, for every credential of a     *)
(*                   bounded set (src/src/api/middleware/auth.ts).         *)
(*   SpecAdmission - one request at a time through Fastify's lifecycle:    *)
(*                   global limiter, route limiter hooks, authenticate,    *)
(*                   verifyTenant and the route handler.                   *)
(*   SpecCreate    - concurrent POST /api/v1/customers calls against the   *)
(*                   customers table and its unique slug constraint.       *)
(*   SpecIngest    - the lead ingest handler called one request at a time. *)
(*   SpecProvision - createCustomerSchema calls for the seeded tenants,    *)
(*                   statement by statement, their transactions            *)
(*                   interleaved (src/src/db/customer-schema.sql).         *)
(*   SpecOnboard   - createSeedCustomer, createCustomer, createCustomer-   *)
(*                   Schema, customer updates and deletions, one call at   *)
(*                   a time.                                               *)
(*   SpecKeys      - createApiKey and validateApiKey while the clock       *)
(*                   advances (src/src/db/functions.sql).                  *)
(*   SpecFamilies  - the limiters of two route families charged for one    *)
(*                   client against the shared Redis counter store.        *)
(*   SpecConcurrency - one withConcurrency call and the settling of the    *)
(*                   operations it starts (src/unnamed/part_009).          *)
(***************************************************************************)
EXTENDS Integers, Sequences, FiniteSets, TLC

(***************************************************************************)
(* Bounds of the model.                                                    *)
(***************************************************************************)
\* config.maxRequests of the limiter under test (the shipped limiters use
\* 10, 50, 100, 200 and 1000).
MaxRequestsCfg == 2
\* How many times the clock may advance.
MaxTicks == 4
\* How many create calls run concurrently.
MaxCreators == 2

(***************************************************************************)
(* Program constants.                                                      *)
(***************************************************************************)
\* Milliseconds per second: Date.now() is in ms, Redis TTLs and JWT exp in s.
MsPerSec == 1000

\* config.windowMs of the limiter under test: two seconds (the shipped
\* limiters use whole minutes; every one is a multiple of 1000 ms).
windowMs == 2 * MsPerSec
maxRequests == MaxRequestsCfg
\* One clock step: half a window.
TickMs == windowMs \div 2

\* Math.ceil(a / b) for b > 0 (\div rounds towards minus infinity).
CeilDiv(a, b) == (a + b - 1) \div b
\* Math.max(a, b)
Max(a, b) == IF a >= b THEN a ELSE b

VARIABLES
  now,        \* Date.now(), in ms
  store,      \* Redis: counter key -> count (absent keys are not in DOMAIN)
  ttl,        \* Redis: counter key -> time in ms at which the key expires
  lpc,        \* limiter request -> "idle" | "incr" | "expire" | "done"
  lkey,       \* limiter request -> rate-limit key (keyGenerator's result)
  lws,        \* limiter request -> windowStart it computed
  lcur,       \* limiter request -> value INCR returned
  lwin,       \* history: the fixed window (number) the request arrived in
  lprior,     \* history: requests of its key and window counted before it
  hits,       \* history: <<key, window>> -> requests counted (INCR landed)
  admitted,   \* history: <<key, window>> -> requests admitted, store reachable
  last        \* history: the request that completed last

VARIABLES
  rq,         \* the request in hand: route, path parameter, headers, origin
  rpc,        \* where Fastify's lifecycle is with it
  ruser,      \* request.user
  rreply,     \* the reply sent: [status, error], status 0 while none is sent
  rthrown,    \* the error the middleware threw to Fastify, "" if none
  rtrail,     \* history: the hooks and handler run for the request, in order
  rhook,      \* how many preHandler hooks have run for the request
  nreq,       \* how many requests have arrived
  touched,    \* history: owners of the records the handler read or changed
  dbCustomers,\* table customers: id -> row
  dbLeads     \* table leads: id -> row

VARIABLES
  cpc,        \* create call -> "idle" | "check" | "insert" | "done"
  cvia,       \* create call -> "route" (POST /api/v1/customers) | "helper"
  cslug,      \* create call -> the slug it creates
  cres        \* create call -> what it returned

VARIABLES
  leadsBefore \* history: table leads as it was before the last ingest call

VARIABLES
  schemas,    \* Postgres: the customer_* schemas that exist (committed)
  personas,   \* schema -> rows of its personas table with is_default = true
  former,     \* history: rows of system.customers that were deleted, by id
  ppc,        \* provisioning run -> "idle" | "schema" | "persona" | "handle"
              \*                     | "views" | "done"
  pargs,      \* provisioning run -> the options it was called with
  pres,       \* provisioning run -> how it ended and at which step
  overlap,    \* history: some run began while another was in its transaction
  partial,    \* history: slugs whose onboarding failed after the row was written
  onboard     \* history: the last onboarding call and how it ended

VARIABLES
  apiKeys,    \* table system.api_keys: id -> row
  nkeys,      \* how many keys generate_api_key has produced
  kcall       \* history: the last validateApiKey call and how it ended

VARIABLES
  fam,        \* history: the requests charged to each limiter family
  wc          \* the withConcurrency call: its locals and its promise

limVars == <<store, ttl, lpc, lkey, lws, lcur, lwin, lprior, hits, admitted, last>>
reqVars == <<rq, rpc, ruser, rreply, rthrown, rtrail, rhook, nreq, touched>>
dbVars == <<dbCustomers, dbLeads>>
createVars == <<cpc, cvia, cslug, cres>>
provVars == <<schemas, personas, former, ppc, pargs, pres, overlap, partial, onboard>>
keyVars == <<apiKeys, nkeys, kcall>>
moreVars == <<fam, wc>>
auxVars == <<leadsBefore, provVars, keyVars, moreVars>>

vars == <<now, limVars, reqVars, dbVars, createVars, auxVars>>

(***************************************************************************)
(* Redis counter store                                                     *)
(***************************************************************************)
\* request.ip of the one client; keys are kept as the pieces of the string.
Keys == {<<"ip1">>}
LProcs == 1 .. (2 * maxRequests)

NoResult == [allowed |-> FALSE, remaining |-> -1, resetTime |-> -1]
NoReply == [status |-> 0, retryAfter |-> 0]
NoLast == [key |-> <<>>, win |-> -1, prior |-> 0, fail |-> FALSE, at |-> 0,
           result |-> NoResult, reply |-> NoReply]

WindowStartUnaligned(t) == t

\* Math.floor(Date.now() / windowMs) * windowMs
WindowStart(t) == (t \div windowMs) * windowMs

\* The fixed window a moment lies in, by number: the windows of the
\* specification are the intervals [n * windowMs, (n + 1) * windowMs).
WindowOf(t) == t \div windowMs

\* `rate_limit:${key}:${windowStart}`
RedisKey(key, windowStart) == <<"rate_limit", key, windowStart>>

\* A counter's value: a key that does not exist counts as 0.
Count(s, rk) == IF rk \in DOMAIN s THEN s[rk] ELSE 0

\* INCR rk: creates the key at 1, or adds 1.
Incr(s, rk) == [k \in DOMAIN s \cup {rk} |-> IF k = rk THEN Count(s, rk) + 1 ELSE s[k]]

\* EXPIRE rk seconds, issued at time t.
Expire(e, rk, seconds, t) ==
  [k \in DOMAIN e \cup {rk} |-> IF k = rk THEN t + seconds * MsPerSec ELSE e[k]]

\* The keys still alive at time t.
Alive(s, e, t) == {k \in DOMAIN s : k \in DOMAIN e => e[k] > t}

(***************************************************************************)
(* RateLimiter.isAllowed, result part (lines 28-32) and catch (33-37).     *)
(***************************************************************************)
AllowedOverQuota(current) == current <= maxRequests + 1

AllowedWhen(current) == current <= maxRequests

IsAllowedResult(current, windowStart) ==
  [allowed   |-> AllowedWhen(current),
   remaining |-> Max(0, maxRequests - current),
   resetTime |-> windowStart + windowMs]

FailClosedResult(t) ==
  [allowed |-> FALSE, remaining |-> 0, resetTime |-> t + windowMs]

FailOpenResult(t) ==
  [allowed |-> TRUE, remaining |-> maxRequests, resetTime |-> t + windowMs]

\* createMiddleware, lines 53-59: the 429 reply, or nothing when allowed.
MiddlewareReply(result, t) ==
  IF ~result.allowed
    THEN [status |-> 429, retryAfter |-> CeilDiv(result.resetTime - t, MsPerSec)]
    ELSE NoReply

(***************************************************************************)
(* Limiter actions                                                         *)
(***************************************************************************)
\* Requests waiting at the same await with the same key and window are
\* interchangeable: the lowest-numbered one is the one whose call settles.
First(p) ==
  \A q \in LProcs :
    q < p => ~(lpc[q] = lpc[p] /\ lkey[q] = lkey[p] /\ lws[q] = lws[p])

\* The request completes: the middleware has its result.  The history keeps
\* the completed request and the admissions made with the store reachable.
Complete(p, result, failed) ==
  LET hk == <<lkey[p], lwin[p]>>
  IN /\ last' = [key |-> lkey[p], win |-> lwin[p],
                 prior |-> IF lpc[p] = "incr" /\ ~failed THEN Count(hits, hk) ELSE lprior[p],
                 fail |-> failed, at |-> now,
                 result |-> result, reply |-> MiddlewareReply(result, now)]
     /\ admitted' = IF result.allowed /\ ~failed THEN Incr(admitted, hk) ELSE admitted
     /\ lpc' = [lpc EXCEPT ![p] = "done"]
     /\ lws' = [lws EXCEPT ![p] = 0]
     /\ lwin' = [lwin EXCEPT ![p] = 0]
     /\ lcur' = [lcur EXCEPT ![p] = 0]
     /\ lprior' = [lprior EXCEPT ![p] = 0]

\* createMiddleware lines 41-45 and isAllowed lines 17-18: the key and the
\* window are fixed from the clock before the first await.  The requests are
\* interchangeable, so they are numbered in the order they arrive.
LBegin(p, k) ==
  /\ lpc[p] = "idle"
  /\ \A q \in LProcs : q < p => lpc[q] # "idle"
  /\ lkey' = [lkey EXCEPT ![p] = k]
  /\ lws' = [lws EXCEPT ![p] = WindowStart(now)]
  /\ lwin' = [lwin EXCEPT ![p] = WindowOf(now)]
  /\ lpc' = [lpc EXCEPT ![p] = "incr"]
  /\ UNCHANGED <<auxVars, createVars, now, store, ttl, lcur, lprior, hits, admitted, last,
                 reqVars, dbVars>>

\* isAllowed line 21: await redis.incr(redisKey).  When current is not 1 the
\* rest of isAllowed and of the middleware runs in the same continuation.
LIncr(p) ==
  /\ lpc[p] = "incr"
  /\ First(p)
  /\ LET rk == RedisKey(lkey[p], lws[p])
         hk == <<lkey[p], lwin[p]>>
         current == Count(store, rk) + 1
     IN /\ store' = Incr(store, rk)
        /\ hits' = Incr(hits, hk)
        /\ IF current = 1
             THEN /\ lpc' = [lpc EXCEPT ![p] = "expire"]
                  /\ lcur' = [lcur EXCEPT ![p] = current]
                  /\ lprior' = [lprior EXCEPT ![p] = Count(hits, hk)]
                  /\ UNCHANGED <<lws, lwin, admitted, last>>
             ELSE Complete(p, IsAllowedResult(current, lws[p]), FALSE)
  /\ UNCHANGED <<auxVars, createVars, now, ttl, lkey, reqVars, dbVars>>

\* isAllowed lines 23-26: await redis.expire(redisKey, ceil(windowMs/1000)),
\* then lines 28-32 and the middleware.
LExpire(p) ==
  /\ lpc[p] = "expire"
  /\ LET rk == RedisKey(lkey[p], lws[p])
     IN ttl' = IF rk \in DOMAIN store
                 THEN Expire(ttl, rk, CeilDiv(windowMs, MsPerSec), now)
                 ELSE ttl
  /\ Complete(p, IsAllowedResult(lcur[p], lws[p]), FALSE)
  /\ UNCHANGED <<auxVars, createVars, now, store, hits, lkey, reqVars, dbVars>>

\* isAllowed lines 33-37: a Redis call rejects, the catch branch fails open.
LRedisError(p) ==
  /\ lpc[p] \in {"incr", "expire"}
  /\ First(p)
  /\ Complete(p, FailOpenResult(now), TRUE)
  /\ UNCHANGED <<auxVars, createVars, now, store, ttl, hits, lkey, reqVars, dbVars>>

\* The clock advances; Redis drops the keys whose TTL has run out.
LTick ==
  /\ now < MaxTicks * TickMs
  /\ now' = now + TickMs
  /\ LET keep == Alive(store, ttl, now')
     IN /\ store' = [k \in keep |-> store[k]]
        /\ ttl' = [k \in keep \cap DOMAIN ttl |-> ttl[k]]
  /\ UNCHANGED <<auxVars, createVars, lpc, lkey, lws, lcur, lwin, lprior, hits, admitted, last,
                 reqVars, dbVars>>


(***************************************************************************)
(* Credentials: src/unnamed/part_004 (utils/jwt) and                       *)
(* src/src/api/middleware/auth.ts                                          *)
(***************************************************************************)
Tenants == {"t1", "t2"}

\* config.API_KEY_SECRET, and a secret the server does not hold.
ServerSecret == "API_KEY_SECRET"
OtherSecret == "other-secret"

\* createHmac('sha256', secret).update(data).digest('base64url'): an ideal
\* MAC, equal for equal secret and data only.
Hmac(secret, data) == <<"hs256", secret, data>>
\* A signature with one byte changed.
Flip(signature) == <<"flipped", signature>>

\* A JWT payload.  A claim that is absent has its has-flag FALSE.
Payload(hasTenant, tenantId, hasExp, exp) ==
  [hasTenant |-> hasTenant, tenantId |-> tenantId, hasExp |-> hasExp, exp |-> exp,
   hasNbf |-> FALSE, nbf |-> 0]
\* The payload with the claim nbf (not before, in seconds) added.
NotBefore(payload, nbf) == [payload EXCEPT !.hasNbf = TRUE, !.nbf = nbf]
\* base64url(JSON.stringify(payload)), and a payload part that is not JSON.
Encoded(payload) == [json |-> TRUE, payload |-> payload]
NotJson == [json |-> FALSE, payload |-> Payload(FALSE, "", FALSE, 0)]

\* `${headerPart}.${payloadPart}.${signature}`; the header part is constant.
Jwt(payloadPart, signature) == [payloadPart |-> payloadPart, signature |-> signature]
\* signJwt, lines 24-38, for a payload that already carries its claims.
SignJwt(payload, secret) ==
  Jwt(Encoded(payload), Hmac(secret, Encoded(payload)))

NoUser == [attached |-> FALSE, payload |-> Payload(FALSE, "", FALSE, 0)]
User(payload) == [attached |-> TRUE, payload |-> payload]

\* JavaScript truthiness of payload.exp: undefined and 0 are falsy.
ExpTruthy(payload) == payload.hasExp /\ payload.exp # 0

ExpiredAtMs(exp, t) == exp < t

\* verifyJwt line 47: payload.exp < Math.floor(Date.now() / 1000)
ExpiredAt(exp, t) == exp < t \div MsPerSec

\* verifyJwt, lines 40-51: the payload, or the message of the Error thrown.
VerifyJwt(token, secret, t) ==
  IF Hmac(secret, token.payloadPart) # token.signature
    THEN [ok |-> FALSE, error |-> "Invalid signature", payload |-> NoUser.payload]
  ELSE IF ~token.payloadPart.json
    THEN [ok |-> FALSE, error |-> "Unexpected token in JSON", payload |-> NoUser.payload]
  ELSE IF ExpTruthy(token.payloadPart.payload) /\ ExpiredAt(token.payloadPart.payload.exp, t)
    THEN [ok |-> FALSE, error |-> "Token expired", payload |-> NoUser.payload]
  ELSE [ok |-> TRUE, error |-> "", payload |-> token.payloadPart.payload]

\* The Authorization header: absent, or the parts auth.split(' ') yields.
NoToken == Jwt(NotJson, <<"none">>)
NoHeader == [present |-> FALSE, parts |-> 0, scheme |-> "", token |-> NoToken]
Header(parts, scheme, token) ==
  [present |-> TRUE, parts |-> parts, scheme |-> scheme, token |-> token]

\* reply.status(status).send({error, message}); a body without a message
\* has message "".
NoReplySent == [status |-> 0, error |-> "", message |-> ""]
ReplyWith(status, error, message) ==
  [status |-> status, error |-> error, message |-> message]
Reply(status, error) == ReplyWith(status, error, "")

\* authenticate line 44: (request as any).user = payload
AttachUser(verified) == User(verified.payload)

\* authenticate, auth.ts lines 38-48: request.user and the reply it sends.
\* A header without a second part gives verifyJwt undefined, whose
\* token.split throws inside the try.
Authenticate(header, t) ==
  IF ~header.present \/ header.parts < 2
    THEN [user |-> NoUser, reply |-> Reply(401, "Unauthorized"), thrown |-> ""]
    ELSE LET verified == VerifyJwt(header.token, ServerSecret, t)
         IN IF verified.ok
              THEN [user |-> AttachUser(verified), reply |-> NoReplySent, thrown |-> ""]
              ELSE [user |-> NoUser, reply |-> Reply(401, "Unauthorized"), thrown |-> ""]

TenantNeverMismatch(user, customerId) == FALSE

\* verifyTenant line 53 and authenticateToken line 99:
\* tenantId && paramTenant && tenantId !== paramTenant
TenantMismatch(user, customerId) ==
  /\ user.attached /\ user.payload.hasTenant /\ user.payload.tenantId # ""
  /\ customerId # ""
  /\ user.payload.tenantId # customerId

\* verifyTenant, auth.ts lines 50-56: the reply it sends, if any.
VerifyTenant(user, customerId) ==
  IF TenantMismatch(user, customerId) THEN Reply(403, "Forbidden") ELSE NoReplySent

\* authenticateToken, auth.ts lines 66-137: request.user and the error thrown
\* to Fastify.  error.message.includes is case sensitive: 'Token expired'
\* includes 'expired', 'Invalid signature' does not include 'invalid'.
AuthenticateToken(header, customerId, t) ==
  IF ~header.present
    THEN [user |-> NoUser, reply |-> NoReplySent, thrown |-> "UnauthorizedError",
          message |-> "Access token required"]
  ELSE IF header.parts # 2 \/ header.scheme # "Bearer"
    THEN [user |-> NoUser, reply |-> NoReplySent, thrown |-> "UnauthorizedError",
          message |-> "Invalid token format. Expected: Bearer <token>"]
  ELSE LET verified == VerifyJwt(header.token, ServerSecret, t)
       IN IF ~verified.ok
            THEN [user |-> NoUser, reply |-> NoReplySent, thrown |-> "UnauthorizedError",
                  message |-> IF verified.error = "Token expired"
                                THEN "Token has expired"
                                ELSE "Invalid or expired token"]
          ELSE IF TenantMismatch(User(verified.payload), customerId)
            THEN [user |-> User(verified.payload), reply |-> NoReplySent,
                  thrown |-> "ForbiddenError", message |-> "Access denied for this resource"]
          ELSE [user |-> User(verified.payload), reply |-> NoReplySent, thrown |-> "",
                message |-> ""]

\* authenticateToken, auth.ts lines 5-32, the version that answers itself:
\* request.user and the reply it sends.
AuthenticateTokenReply(header, customerId, t) ==
  IF ~header.present
    THEN [user |-> NoUser, thrown |-> "",
          reply |-> ReplyWith(401, "Unauthorized", "Access token required")]
  ELSE IF header.parts # 2 \/ header.scheme # "Bearer"
    THEN [user |-> NoUser, thrown |-> "",
          reply |-> ReplyWith(401, "Unauthorized", "Invalid token format")]
  ELSE LET verified == VerifyJwt(header.token, ServerSecret, t)
       IN IF ~verified.ok
            THEN [user |-> NoUser, thrown |-> "",
                  reply |-> ReplyWith(401, "Unauthorized", "Invalid or expired token")]
          ELSE IF TenantMismatch(User(verified.payload), customerId)
            THEN [user |-> User(verified.payload), thrown |-> "",
                  reply |-> ReplyWith(403, "Forbidden", "Access denied for this resource")]
          ELSE [user |-> User(verified.payload), thrown |-> "", reply |-> NoReplySent]

(***************************************************************************)
(* Tables customers and leads: src/src/db/schema.ts                        *)
(***************************************************************************)
\* customers.metadata (jsonb, default {}): only the key schema_name is
\* followed; <<>> stands for the key being absent.
NoMetadata == [schema_name |-> <<>>]
\* customers: id (primary key), slug (unique), name, isActive, metadata
CustomerRow(slug, name, isActive) ==
  [slug |-> slug, name |-> name, isActive |-> isActive, metadata |-> NoMetadata]
\* leads: id, customerId, externalId, status; unique (customerId, externalId)
LeadRow(customerId, externalId, status) ==
  [customerId |-> customerId, externalId |-> externalId, status |-> status]

\* The rows present before the modelled requests: two tenants, a lead each.
SeedCustomers ==
  [id \in Tenants |-> IF id = "t1" THEN CustomerRow("s1", "one", TRUE)
                                  ELSE CustomerRow("s2", "two", TRUE)]
SeedLeads ==
  [id \in {"l1", "l2"} |-> IF id = "l1" THEN LeadRow("t1", "LEAD-001", "new")
                                        ELSE LeadRow("t2", "LEAD-002", "new")]

\* uuid defaultRandom(): an id no row has yet.
CustomerIds == <<"t1", "t2", "t3", "t4", "t5", "t6">>
LeadIds == <<"l1", "l2", "l3", "l4", "l5", "l6">>
FreshId(ids, table) == ids[Cardinality(DOMAIN table) + 1]

\* notExists(customers, 'slug', value), part_005 lines 142-153
NotExists(customers, slug) == ~\E id \in DOMAIN customers : customers[id].slug = slug

\* findByField(customers, 'slug', value): the ids of the rows found
FindBySlug(customers, slug) == {id \in DOMAIN customers : customers[id].slug = slug}

\* db.insert(customers).values(...): Postgres rejects a second row with the
\* same slug (schema.ts line 12, .unique()) with error 23505.
UniqueViolation == <<"duplicate", "key", "value", "violates", "unique", "constraint">>
InsertCustomer(customers, slug, name) ==
  IF \E id \in DOMAIN customers : customers[id].slug = slug
    THEN [ok |-> FALSE, table |-> customers, error |-> UniqueViolation]
    ELSE [ok |-> TRUE,
          table |-> [id \in DOMAIN customers \cup {FreshId(CustomerIds, customers)} |->
                       IF id \in DOMAIN customers THEN customers[id]
                       ELSE CustomerRow(slug, name, TRUE)],
          error |-> <<>>]

\* db.insert(leads).values(...): schema.ts line 66, leads_external_unique on
\* (customer_id, external_id).
InsertLead(leadsTable, customerId, externalId) ==
  IF \E id \in DOMAIN leadsTable :
       leadsTable[id].customerId = customerId /\ leadsTable[id].externalId = externalId
    THEN [ok |-> FALSE, table |-> leadsTable, error |-> UniqueViolation]
    ELSE [ok |-> TRUE,
          table |-> [id \in DOMAIN leadsTable \cup {FreshId(LeadIds, leadsTable)} |->
                       IF id \in DOMAIN leadsTable THEN leadsTable[id]
                       ELSE LeadRow(customerId, externalId, "new")],
          error |-> <<>>]

(***************************************************************************)
(* Tenant provisioning: src/src/utils/slug.ts,                             *)
(* src/src/db/customer-schema.sql, src/src/db/README.md lines 231-250      *)
(***************************************************************************)
\* At most MaxRuns calls of createCustomerSchema, at most MaxOnboard
\* onboarding calls that write a tenant row.
MaxRuns == 2
MaxOnboard == 2
\* Calls of createCustomerSchema outside an onboarding stop once a schema
\* holds MaxPersonas default personas.
MaxPersonas == 2

PProcs == 1 .. MaxRuns

\* The slugs of the model, letter by letter.
Spelling ==
  [slug \in {"s1", "s2", "s3", "s4", "a-b"} |->
     CASE slug = "s1" -> <<"s", "1">>
       [] slug = "s2" -> <<"s", "2">>
       [] slug = "s3" -> <<"s", "3">>
       [] slug = "s4" -> <<"s", "4">>
       [] slug = "a-b" -> <<"a", "-", "b">>]
SlugAlphabet == {"s", "a", "b", "1", "2", "3", "4", "-"}
ToLowerCase(c) == CASE c = "A" -> "a" [] c = "B" -> "b" [] c = "S" -> "s" [] OTHER -> c

\* sanitizeSlug, slug.ts lines 1-7
SanitizeSlug(chars) ==
  LET normalized == [i \in DOMAIN chars |-> ToLowerCase(chars[i])]
  IN IF normalized # <<>> /\ \A i \in DOMAIN normalized : normalized[i] \in SlugAlphabet
       THEN [ok |-> TRUE, slug |-> normalized]
       ELSE [ok |-> FALSE, slug |-> <<>>]

\* replace(p_slug, '-', '_') and .replace(/-/g, '_')
ReplaceHyphens(chars) == [i \in DOMAIN chars |-> IF chars[i] = "-" THEN "_" ELSE chars[i]]

\* schemaNameFromSlug, slug.ts lines 9-12
SchemaNameFromSlug(chars) == <<"customer_">> \o ReplaceHyphens(SanitizeSlug(chars).slug)

\* v_schema_name, customer-schema.sql line 15
VSchemaName(p_slug) == <<"customer_">> \o ReplaceHyphens(p_slug)

\* INSERT INTO personas ... ON CONFLICT DO NOTHING, customer-schema.sql lines
\* 103-116: a conflict needs a unique constraint, and the table's only one is
\* its primary key id, DEFAULT uuid_generate_v4() (lines 21-32).
ConflictsOnPersonas(rows) == FALSE
InsertDefaultPersona(rows) == IF ConflictsOnPersonas(rows) THEN rows ELSE rows + 1

\* The steps of one attempt in order; "done" follows the last of them.
StepIndex == [schema |-> 1, persona |-> 2, handle |-> 3, views |-> 4, done |-> 5]

\* What the attempt has written once the steps before pc have run, on top of
\* the committed state d = [customers, schemas, personas]:
\* system.create_customer_schema, customer-schema.sql lines 7-128, then
\* system.create_customer_analytics_views, which writes no rows.
EffectsUpTo(d, customerId, slug, pc) ==
  LET name == VSchemaName(slug)
      rowsBefore == IF name \in DOMAIN d.personas THEN d.personas[name] ELSE 0
      rowsAfter == IF StepIndex["persona"] < StepIndex[pc]
                     THEN InsertDefaultPersona(rowsBefore) ELSE rowsBefore
  IN IF StepIndex["schema"] >= StepIndex[pc] THEN d
     ELSE [schemas |-> d.schemas \cup {name},
           personas |-> [n \in DOMAIN d.personas \cup {name} |->
                           IF n = name THEN rowsAfter ELSE d.personas[n]],
           customers |->
             IF StepIndex["handle"] < StepIndex[pc] /\ customerId \in DOMAIN d.customers
               THEN [d.customers EXCEPT ![customerId].metadata.schema_name = name]
               ELSE d.customers]

\* withTransaction, analytics.sql lines 169-173: db.transaction commits what
\* the callback wrote when it returns and rolls it back when it throws.
WithoutTransaction(before, attempted, ok) == attempted
WithTransaction(before, attempted, ok) == IF ok THEN attempted ELSE before

NoOptions == [customerId |-> "", slug |-> ""]
NoRunResult == [status |-> "", at |-> ""]
NoOnboard == [op |-> "", slug |-> "", retry |-> FALSE, fault |-> "", ok |-> FALSE,
              provisioned |-> FALSE, returned |-> {}, logged |-> {}]
NoProvisioning ==
  /\ schemas = {}
  /\ personas = <<>>
  /\ former = <<>>
  /\ ppc = [p \in PProcs |-> "idle"]
  /\ pargs = [p \in PProcs |-> NoOptions]
  /\ pres = [p \in PProcs |-> NoRunResult]
  /\ overlap = FALSE
  /\ partial = {}
  /\ onboard = NoOnboard

(***************************************************************************)
(* API keys: table system.api_keys (part_002 lines 57-66),                 *)
(* src/src/db/functions.sql lines 48-90, src/src/db/README.md lines 255-309 *)
(***************************************************************************)
\* expires_at and last_used_at are NULL until set.
NullTime == -1

\* system.generate_api_key, functions.sql lines 48-53: 'osk_' and 32 random
\* bytes in hex; the n-th key drawn differs from all drawn before.
GenerateApiKey(n) == <<"osk_", n>>
\* system.hash_api_key, functions.sql lines 56-61
HashApiKey(key) == <<"sha256">> \o key

ApiKeyRow(customerId, keyHash, expiresAt) ==
  [customerId |-> customerId, keyHash |-> keyHash, isActive |-> TRUE,
   expiresAt |-> expiresAt, lastUsedAt |-> NullTime]

\* createApiKey, README.md lines 255-286
CreateApiKey(keys, issued, customerId, expiresAt) ==
  LET apiKey == GenerateApiKey(issued + 1)
      keyHash == HashApiKey(apiKey)
      id == <<"key", issued + 1>>
  IN [keys |-> [k \in DOMAIN keys \cup {id} |->
                  IF k = id THEN ApiKeyRow(customerId, keyHash, expiresAt) ELSE keys[k]],
      result |-> [id |-> id, key |-> apiKey, keyHash |-> keyHash]]

\* The CASE of system.validate_api_key, functions.sql lines 74-80
IsValidThoughRevoked(ak, c, t) ==
  (ak.expiresAt = NullTime \/ ak.expiresAt > t) /\ c.isActive
IsValid(ak, c, t) ==
  ak.isActive /\ (ak.expiresAt = NullTime \/ ak.expiresAt > t) /\ c.isActive

\* WHERE ak.key_hash = v_key_hash, with the JOIN on the owning customer
Matching(keys, customers, p_key) ==
  {k \in DOMAIN keys : /\ keys[k].keyHash = HashApiKey(p_key)
                        /\ keys[k].customerId \in DOMAIN customers}

\* system.validate_api_key, functions.sql lines 64-90: the rows returned and
\* the table after the UPDATE of last_used_at.  A statement that raises ends
\* the function with that error: it returns no rows.
ValidateApiKeySql(keys, customers, p_key, t, updateFails) ==
  IF updateFails THEN [raised |-> TRUE, rows |-> {}, keys |-> keys]
  ELSE [raised |-> FALSE,
        rows |-> {[customerId |-> keys[k].customerId,
                   isValid |-> IsValid(keys[k], customers[keys[k].customerId], t)] :
                  k \in Matching(keys, customers, p_key)},
        keys |-> [k \in DOMAIN keys |->
                    IF keys[k].keyHash = HashApiKey(p_key)
                      THEN [keys[k] EXCEPT !.lastUsedAt = t] ELSE keys[k]]]

\* validateApiKey, README.md lines 291-309: null when no row comes back, the
\* first row otherwise; what db.execute throws is thrown on.
ValidateApiKey(keys, customers, apiKey, t, updateFails) ==
  LET q == ValidateApiKeySql(keys, customers, apiKey, t, updateFails)
      result == CHOOSE r \in q.rows : TRUE
  IN IF q.raised
       THEN [thrown |-> TRUE, found |-> FALSE, customerId |-> "", isValid |-> FALSE,
             keys |-> keys]
     ELSE IF q.rows = {}
       THEN [thrown |-> FALSE, found |-> FALSE, customerId |-> "", isValid |-> FALSE,
             keys |-> q.keys]
     ELSE [thrown |-> FALSE, found |-> TRUE, customerId |-> result.customerId,
           isValid |-> result.isValid, keys |-> q.keys]

NoKeyCall == [key |-> <<>>, at |-> 0, fault |-> FALSE, thrown |-> FALSE,
              found |-> FALSE, customerId |-> "", isValid |-> FALSE,
              issued |-> FALSE, owner |-> "", revoked |-> FALSE,
              expiresAt |-> NullTime, tenantActive |-> FALSE]
NoKeys ==
  /\ apiKeys = <<>>
  /\ nkeys = 0
  /\ kcall = NoKeyCall

\* Nothing recorded yet by the operations outside the request pipeline.
\* No limiter family charged, withConcurrency not called.
NoFamilies == [charged |-> <<>>, family |-> "", windowStart |-> 0, own |-> 0,
               result |-> NoResult]
NoPromise == [state |-> "pending", value |-> <<>>]
NoConcurrencyCall ==
  [called |-> FALSE, items |-> 0, concurrency |-> 0, abortOnError |-> FALSE,
   index |-> 0, running |-> 0, completed |-> 0, results |-> <<>>, errors |-> <<>>,
   awaiting |-> {}, promise |-> NoPromise]
NoMore ==
  /\ fam = NoFamilies
  /\ wc = NoConcurrencyCall

NoAux ==
  /\ leadsBefore = SeedLeads
  /\ NoProvisioning
  /\ NoKeys
  /\ NoMore

(***************************************************************************)
(* Create calls: what a call returns.                                      *)
(***************************************************************************)
CProcs == 1 .. MaxCreators
NoCreateResult == [status |-> 0, success |-> FALSE, error |-> <<>>]
NoCreateCalls ==
  /\ cpc = [p \in CProcs |-> "idle"]
  /\ cvia = [p \in CProcs |-> ""]
  /\ cslug = [p \in CProcs |-> ""]
  /\ cres = [p \in CProcs |-> NoCreateResult]

(***************************************************************************)
(* SpecVerify: the credential middleware applied to one request, for every *)
(* header, path parameter and clock value of the bounded sets.             *)
(***************************************************************************)
\* exp claims run over 0 .. MaxExp seconds.
MaxExp == 2

ExpClaims == 0 .. MaxExp
\* nbf claims: one second past the start, and past the last clock value.
NbfClaims == {1, MaxExp + 2}
Payloads ==
  {Payload(ht, tid, he, e) : ht \in {TRUE}, tid \in Tenants, he \in {TRUE}, e \in ExpClaims}
  \cup {Payload(TRUE, tid, FALSE, 0) : tid \in Tenants}
  \cup {Payload(FALSE, "", he, e) : he \in {TRUE}, e \in ExpClaims}
  \cup {Payload(FALSE, "", FALSE, 0)}
  \cup {NotBefore(Payload(TRUE, tid, FALSE, 0), nbf) : tid \in Tenants, nbf \in NbfClaims}

\* Tokens signed with the server secret, with another secret, and with one
\* byte of a good signature changed; and tokens whose payload is not JSON.
\* An API key sent where the token goes.  It has no '.', so token.split('.')
\* (verifyJwt, part_004 line 41) yields the key as the header part and
\* undefined for the payload part and the signature.
OpaqueToken(key) ==
  Jwt([json |-> FALSE, payload |-> Payload(FALSE, "", FALSE, 0), header |-> key],
      <<"undefined">>)

\* The keys in the table when the request arrives: one for t1 that does not
\* expire, one for t2 that expires after a second.
IssuedKeys ==
  CreateApiKey(CreateApiKey(<<>>, 0, "t1", NullTime).keys, 1, "t2", MsPerSec).keys

Tokens ==
  {SignJwt(pl, sec) : pl \in Payloads, sec \in {ServerSecret, OtherSecret}}
  \cup {Jwt(Encoded(pl), Flip(Hmac(ServerSecret, Encoded(pl)))) : pl \in Payloads}
  \cup {Jwt(NotJson, Hmac(ServerSecret, NotJson)), Jwt(NotJson, <<"token">>)}
  \cup {OpaqueToken(GenerateApiKey(n)) : n \in 1 .. 2}

Headers ==
  {NoHeader, Header(1, "Bearer", NoToken)}
  \cup {Header(2, sch, tok) : sch \in {"Bearer", "Basic"}, tok \in Tokens}

\* Clock values: every half second up to one second past the last exp.
VerifyTimes == {k * (MsPerSec \div 2) : k \in 0 .. (2 * (MaxExp + 1))}

NoRequest ==
  [route |-> "", customerId |-> "", id |-> "", body |-> "", auth |-> NoHeader, ip |-> ""]
NoRequestInHand ==
  /\ rq = NoRequest
  /\ rpc = "none"
  /\ ruser = NoUser
  /\ rreply = NoReplySent
  /\ rthrown = ""
  /\ rtrail = <<>>
  /\ rhook = 0
  /\ nreq = 0
  /\ touched = {}
  /\ dbCustomers = SeedCustomers
  /\ dbLeads = SeedLeads

\* preHandler: authenticate (customers.ts, leads.ts)
VAuthenticate ==
  /\ rpc = "received"
  /\ LET a == Authenticate(rq.auth, now)
     IN /\ ruser' = a.user
        /\ rreply' = a.reply
        /\ rthrown' = a.thrown
  /\ rpc' = "authenticated"
  /\ rtrail' = Append(rtrail, "authenticate")
  /\ UNCHANGED <<auxVars, createVars, now, rq, rhook, nreq, touched, limVars, dbVars>>

\* preHandler: verifyTenant, run when authenticate has sent no reply
VVerifyTenant ==
  /\ rpc = "authenticated"
  /\ rreply.status = 0
  /\ rreply' = VerifyTenant(ruser, rq.customerId)
  /\ rpc' = "guarded"
  /\ rtrail' = Append(rtrail, "verifyTenant")
  /\ UNCHANGED <<auxVars, createVars, now, rq, ruser, rthrown, rhook, nreq, touched,
                 limVars, dbVars>>

\* preHandler: authenticateToken (the middleware the tests drive)
VAuthenticateToken ==
  /\ rpc = "received"
  /\ LET a == AuthenticateToken(rq.auth, rq.customerId, now)
     IN /\ ruser' = a.user
        /\ rreply' = a.reply
        /\ rthrown' = a.thrown
  /\ rpc' = "guarded"
  /\ rtrail' = Append(rtrail, "authenticateToken")
  /\ UNCHANGED <<auxVars, createVars, now, rq, rhook, nreq, touched, limVars, dbVars>>

\* preHandler: authenticateToken, the version that answers itself
VAuthenticateTokenReply ==
  /\ rpc = "received"
  /\ LET a == AuthenticateTokenReply(rq.auth, rq.customerId, now)
     IN /\ ruser' = a.user
        /\ rreply' = a.reply
        /\ rthrown' = a.thrown
  /\ rpc' = "guarded"
  /\ rtrail' = Append(rtrail, "authenticateTokenReply")
  /\ UNCHANGED <<auxVars, createVars, now, rq, rhook, nreq, touched, limVars, dbVars>>

InitVerify ==
  /\ now \in VerifyTimes
  /\ store = <<>> /\ ttl = <<>> /\ hits = <<>> /\ admitted = <<>> /\ last = NoLast
  /\ lpc = [p \in LProcs |-> "done"]
  /\ lkey = [p \in LProcs |-> <<"ip1">>]
  /\ lws = [p \in LProcs |-> 0]
  /\ lcur = [p \in LProcs |-> 0]
  /\ lwin = [p \in LProcs |-> 0]
  /\ lprior = [p \in LProcs |-> 0]
  /\ \E h \in Headers, c \in Tenants \cup {""} :
       rq = [route |-> "verify", customerId |-> c, id |-> "", body |-> "",
             auth |-> h, ip |-> "ip1"]
  /\ rpc = "received"
  /\ ruser = NoUser
  /\ rreply = NoReplySent
  /\ rthrown = ""
  /\ rtrail = <<>>
  /\ rhook = 0
  /\ nreq = 1
  /\ touched = {}
  /\ dbCustomers = SeedCustomers
  /\ dbLeads = SeedLeads
  /\ NoCreateCalls
  /\ leadsBefore = SeedLeads
  /\ NoProvisioning
  /\ apiKeys = IssuedKeys
  /\ nkeys = 2
  /\ kcall = NoKeyCall
  /\ NoMore

NextVerify ==
  \/ VAuthenticate
  \/ VVerifyTenant
  \/ VAuthenticateToken
  \/ VAuthenticateTokenReply

SpecVerify == InitVerify /\ [][NextVerify]_vars

(***************************************************************************)
(* Routes and their preHandler chains: src/src/api/server.ts,              *)
(* src/src/api/routes/customers.ts, src/src/api/routes/leads.ts            *)
(***************************************************************************)
CustomerRoutes ==
  {"createCustomer", "getCustomer", "getCustomerBySlug", "listCustomers", "updateCustomer"}
LeadRoutes == {"ingestLead", "getLead", "listLeads", "updateLeadStatus"}
Routes == CustomerRoutes \cup LeadRoutes

\* request.url, as its path segments up to the first path parameter.
Url(route) ==
  IF route \in CustomerRoutes THEN <<"api", "v1", "customers">>
  ELSE IF route = "ingestLead" THEN <<"api", "v1", "leads", "ingest">>
  ELSE IF route = "listLeads" THEN <<"api", "v1", "leads", "customer">>
  ELSE <<"api", "v1", "leads">>

\* request.url.startsWith(route)
StartsWith(url, prefix) ==
  /\ Len(prefix) <= Len(url)
  /\ \A i \in 1 .. Len(prefix) : url[i] = prefix[i]

\* server.ts lines 30-33: the limiters hooked on the instance, in order.
AppliedRateLimits ==
  << [route |-> <<"api", "v1", "customers">>, limiter |-> "customerCreation"],
     [route |-> <<"api", "v1", "leads", "ingest">>, limiter |-> "leadIngestion"],
     [route |-> <<"webhooks">>, limiter |-> "webhooks"],
     [route |-> <<"api", "v1", "conversations">>, limiter |-> "conversation"] >>

RECURSIVE LimiterHooksFrom(_, _)
LimiterHooksFrom(i, url) ==
  IF i > Len(AppliedRateLimits) THEN <<>>
  ELSE (IF StartsWith(url, AppliedRateLimits[i].route)
          THEN <<AppliedRateLimits[i].limiter>> ELSE <<>>)
       \o LimiterHooksFrom(i + 1, url)

\* applyRateLimit, rate-limit.ts lines 126-137: the instance-level preHandler
\* hooks that do something for this url.
LimiterHooks(route) == LimiterHooksFrom(1, Url(route))
Limiters == {"customerCreation", "leadIngestion", "webhooks", "conversation"}

\* The preHandler option of each route.
RoutePreHandlers(route) ==
  IF route \in CustomerRoutes \cup {"updateLeadStatus"} THEN <<"authenticate">>
  ELSE IF route \in {"ingestLead", "listLeads"} THEN <<"authenticate", "verifyTenant">>
  ELSE <<>>

PreHandlerChainAuthFirst(route) == RoutePreHandlers(route) \o LimiterHooks(route)

\* Fastify runs the preHandler hooks added to the instance before the ones
\* given in the route options.
PreHandlerChain(route) == LimiterHooks(route) \o RoutePreHandlers(route)

\* keyGenerator of each limiter, rate-limit.ts lines 76-110
LimiterKey(limiter, req) ==
  IF limiter = "leadIngestion"
    THEN <<"customer:", IF req.customerId # "" THEN req.customerId ELSE "unknown">>
  ELSE IF limiter = "conversation"
    THEN <<"conversation:", IF req.customerId # "" THEN req.customerId ELSE req.ip>>
  ELSE <<req.ip>>

(***************************************************************************)
(* Route handlers.  Each yields the status replied, the tables afterwards  *)
(* and the owners of the records it returned or changed.                   *)
(***************************************************************************)
Outcome(status, customers, leadsTable, owners) ==
  [status |-> status, customers |-> customers, leads |-> leadsTable, touched |-> owners]

\* error.message.toLowerCase().includes(phrase): messages are kept as their
\* lower-case words.
Includes(message, phrase) ==
  \E i \in 0 .. (Len(message) - Len(phrase)) :
    \A j \in 1 .. Len(phrase) : message[i + j] = phrase[j]

\* determineStatusCode, part_009 lines 567-588, for an error whose name is
\* none of the application's error classes.
DetermineStatusCode(message) ==
  IF Includes(message, <<"not", "found">>) THEN 404
  ELSE IF Includes(message, <<"unauthorized">>) \/ Includes(message, <<"unauthenticated">>)
    THEN 401
  ELSE IF Includes(message, <<"forbidden">>) \/ Includes(message, <<"permission">>) THEN 403
  ELSE IF Includes(message, <<"conflict">>) \/ Includes(message, <<"already", "exists">>)
    THEN 409
  ELSE IF Includes(message, <<"timeout">>) THEN 408
  ELSE IF Includes(message, <<"validation">>) \/ Includes(message, <<"invalid">>) THEN 400
  ELSE 500

\* POST /api/v1/customers, customers.ts lines 30-62, run without interruption.
CreateCustomer(req, cs, ls) ==
  IF ~NotExists(cs, req.body) THEN Outcome(409, cs, ls, {})
  ELSE LET ins == InsertCustomer(cs, req.body, "created")
       IN IF ins.ok THEN Outcome(201, ins.table, ls, {})
          ELSE Outcome(DetermineStatusCode(ins.error), cs, ls, {})

\* GET /api/v1/customers/:id, lines 65-78
GetCustomer(req, cs, ls) ==
  IF req.id \notin DOMAIN cs THEN Outcome(404, cs, ls, {})
  ELSE Outcome(200, cs, ls, {req.id})

\* GET /api/v1/customers/slug/:slug, lines 81-102
GetCustomerBySlug(req, cs, ls) ==
  IF FindBySlug(cs, req.id) = {} THEN Outcome(404, cs, ls, {})
  ELSE Outcome(200, cs, ls, FindBySlug(cs, req.id))

\* GET /api/v1/customers, lines 105-114
ListCustomers(req, cs, ls) == Outcome(200, cs, ls, DOMAIN cs)

\* getRequestBody, validation.ts lines 242-244, hands request.body on as it
\* came; UpdateCustomerSchema (part_015 lines 5-16) lists name and metadata
\* among the keys of an update.  A body is either { metadata: {} } or
\* { name: body }.
MetadataBody == "metadata: {}"
UpdateData(body) == IF body = MetadataBody THEN [metadata |-> NoMetadata] ELSE [name |-> body]
\* .set({ ...updateData }): the columns named are replaced, the rest kept.
SetColumns(row, updateData) ==
  [f \in DOMAIN row |-> IF f \in DOMAIN updateData THEN updateData[f] ELSE row[f]]

\* PATCH /api/v1/customers/:id, lines 117-141
UpdateCustomer(req, cs, ls) ==
  IF req.id \notin DOMAIN cs THEN Outcome(404, cs, ls, {})
  ELSE Outcome(200, [cs EXCEPT ![req.id] = SetColumns(cs[req.id], UpdateData(req.body))],
               ls, {req.id})

\* POST /api/v1/leads/ingest/:customerId, leads.ts lines 24-83
IngestLead(req, cs, ls) ==
  IF req.customerId \notin DOMAIN cs THEN Outcome(404, cs, ls, {})
  ELSE IF ~cs[req.customerId].isActive THEN Outcome(403, cs, ls, {req.customerId})
  ELSE LET ins == InsertLead(ls, req.customerId, req.body)
       IN IF ins.ok THEN Outcome(201, cs, ins.table, {req.customerId})
          ELSE Outcome(500, cs, ls, {req.customerId})

\* GET /api/v1/leads/:id, lines 96-125
GetLead(req, cs, ls) ==
  IF req.id \notin DOMAIN ls THEN Outcome(404, cs, ls, {})
  ELSE Outcome(200, cs, ls, {ls[req.id].customerId})

\* GET /api/v1/leads/customer/:customerId, lines 147-208
ListLeads(req, cs, ls) ==
  IF req.customerId \notin DOMAIN cs THEN Outcome(404, cs, ls, {})
  ELSE Outcome(200, cs, ls, {req.customerId})

\* PATCH /api/v1/leads/:id/status, lines 223-256
UpdateLeadStatus(req, cs, ls) ==
  IF req.id \notin DOMAIN ls THEN Outcome(404, cs, ls, {})
  ELSE Outcome(200, cs, [ls EXCEPT ![req.id].status = req.body], {ls[req.id].customerId})

Handler(req, cs, ls) ==
  CASE req.route = "createCustomer" -> CreateCustomer(req, cs, ls)
    [] req.route = "getCustomer" -> GetCustomer(req, cs, ls)
    [] req.route = "getCustomerBySlug" -> GetCustomerBySlug(req, cs, ls)
    [] req.route = "listCustomers" -> ListCustomers(req, cs, ls)
    [] req.route = "updateCustomer" -> UpdateCustomer(req, cs, ls)
    [] req.route = "ingestLead" -> IngestLead(req, cs, ls)
    [] req.route = "getLead" -> GetLead(req, cs, ls)
    [] req.route = "listLeads" -> ListLeads(req, cs, ls)
    [] req.route = "updateLeadStatus" -> UpdateLeadStatus(req, cs, ls)

(***************************************************************************)
(* SpecAdmission: requests, one at a time, through Fastify's lifecycle:    *)
(* onRequest (the global limiter), the preHandler chain, the handler.      *)
(***************************************************************************)
\* Enough requests for one client to exceed the quota of a limiter.
NumRequests == maxRequests + 1

\* Credentials presented: none, a token of each tenant, a token without
\* tenantId, a token signed by a stranger.
AdmissionHeaders ==
  {NoHeader}
  \cup {Header(2, "Bearer", SignJwt(Payload(TRUE, t, FALSE, 0), ServerSecret)) : t \in Tenants}
  \cup {Header(2, "Bearer", SignJwt(Payload(FALSE, "", FALSE, 0), ServerSecret)),
        Header(2, "Bearer", SignJwt(Payload(TRUE, "t1", FALSE, 0), OtherSecret))}

Request(route, customerId, id, body, auth) ==
  [route |-> route, customerId |-> customerId, id |-> id, body |-> body,
   auth |-> auth, ip |-> "ip1"]

\* The path parameters and bodies tried on each route.  Records are
\* addressed by id at tenant t2 and its lead l2; the credentials range over
\* both tenants.
Targets ==
  {<<"createCustomer", "", "", slug>> : slug \in {"s1", "s3"}}
  \cup {<<"getCustomer", "", "t2", "">>, <<"getCustomerBySlug", "", "s2", "">>,
        <<"listCustomers", "", "", "">>, <<"updateCustomer", "", "t2", "renamed">>}
  \cup {<<"ingestLead", c, "", "LEAD-003">> : c \in Tenants}
  \cup {<<"getLead", "", "l2", "">>, <<"updateLeadStatus", "", "l2", "contacted">>}
  \cup {<<"listLeads", "t1", "", "">>}

\* A request arrives once the one before it was answered or left hanging.
AReceive(target, auth) ==
  /\ rpc \in {"none", "done", "stalled"}
  /\ nreq < NumRequests
  /\ nreq' = nreq + 1
  /\ rq' = Request(target[1], target[2], target[3], target[4], auth)
  /\ rpc' = "onRequest"
  /\ ruser' = NoUser
  /\ rreply' = NoReplySent
  /\ rthrown' = ""
  /\ rtrail' = <<>>
  /\ rhook' = 0
  /\ touched' = {}
  /\ UNCHANGED <<auxVars, createVars, now, limVars, dbVars>>

\* setupRateLimiting, rate-limit.ts lines 114-123: @fastify/rate-limit on
\* every route, at onRequest.  Its counter is its own; it admits or answers
\* 429.
AGlobalRateLimit(allowed) ==
  /\ rpc = "onRequest"
  /\ rtrail' = Append(rtrail, "globalRateLimit")
  /\ IF allowed
       THEN rpc' = "preHandler" /\ rreply' = rreply
       ELSE rpc' = "done" /\ rreply' = Reply(429, "Too Many Requests")
  /\ UNCHANGED <<auxVars, createVars, now, rq, ruser, rthrown, rhook, nreq, touched,
                 limVars, dbVars>>

\* The hook that runs next.
NextHook ==
  IF rpc = "preHandler" /\ rhook < Len(PreHandlerChain(rq.route))
    THEN PreHandlerChain(rq.route)[rhook + 1]
    ELSE "none"

\* A hook has run: an async hook that sent a reply ends the request, one
\* that did not hands over to the next hook.
AfterHook(name, reply) ==
  /\ rtrail' = Append(rtrail, name)
  /\ rhook' = rhook + 1
  /\ rreply' = reply
  /\ rpc' = IF reply.status # 0 THEN "done" ELSE "preHandler"

\* applyRateLimit's hook: createMiddleware and isAllowed, lines 16-62.
ARateLimit ==
  /\ NextHook \in Limiters
  /\ LET key == LimiterKey(NextHook, rq)
         windowStart == WindowStart(now)
         rk == RedisKey(key, windowStart)
         current == Count(store, rk) + 1
         result == IsAllowedResult(current, windowStart)
     IN /\ store' = Incr(store, rk)
        /\ ttl' = IF current = 1
                    THEN Expire(ttl, rk, CeilDiv(windowMs, MsPerSec), now)
                    ELSE ttl
        /\ AfterHook("rateLimit",
                     IF MiddlewareReply(result, now).status = 429
                       THEN Reply(429, "Too Many Requests") ELSE NoReplySent)
  /\ UNCHANGED <<auxVars, createVars, now, rq, ruser, rthrown, nreq, touched, dbVars,
                 lpc, lkey, lws, lcur, lwin, lprior, hits, admitted, last>>

\* The same hook when the Redis call rejects: isAllowed lines 33-37.
ARateLimitRedisError ==
  /\ NextHook \in Limiters
  /\ AfterHook("rateLimit",
               IF MiddlewareReply(FailOpenResult(now), now).status = 429
                 THEN Reply(429, "Too Many Requests") ELSE NoReplySent)
  /\ UNCHANGED <<auxVars, createVars, now, rq, ruser, rthrown, nreq, touched, limVars, dbVars>>

\* preHandler: authenticate, auth.ts lines 38-48
AAuthenticate ==
  /\ NextHook = "authenticate"
  /\ LET a == Authenticate(rq.auth, now)
     IN /\ ruser' = a.user
        /\ rthrown' = a.thrown
        /\ AfterHook("authenticate", a.reply)
  /\ UNCHANGED <<auxVars, createVars, now, rq, nreq, touched, limVars, dbVars>>

\* preHandler: verifyTenant, auth.ts lines 50-56.  It is not async and takes
\* no done callback: when it sends no reply, nothing tells Fastify to go on
\* and the request is left hanging.
AVerifyTenant ==
  /\ NextHook = "verifyTenant"
  /\ rtrail' = Append(rtrail, "verifyTenant")
  /\ rhook' = rhook + 1
  /\ rreply' = VerifyTenant(ruser, rq.customerId)
  /\ rpc' = IF rreply'.status # 0 THEN "done" ELSE "stalled"
  /\ UNCHANGED <<auxVars, createVars, now, rq, ruser, rthrown, nreq, touched, limVars, dbVars>>

\* Every preHandler hook has run and none replied: the route handler runs.
AHandler ==
  /\ rpc = "preHandler"
  /\ rhook = Len(PreHandlerChain(rq.route))
  /\ LET out == Handler(rq, dbCustomers, dbLeads)
     IN /\ rreply' = Reply(out.status, "")
        /\ dbCustomers' = out.customers
        /\ dbLeads' = out.leads
        /\ touched' = out.touched
  /\ rtrail' = Append(rtrail, "handler")
  /\ rpc' = "done"
  /\ UNCHANGED <<auxVars, createVars, now, rq, ruser, rthrown, rhook, nreq, limVars>>

InitAdmission ==
  /\ now = 0
  /\ store = <<>> /\ ttl = <<>> /\ hits = <<>> /\ admitted = <<>> /\ last = NoLast
  /\ lpc = [p \in LProcs |-> "done"]
  /\ lkey = [p \in LProcs |-> <<"ip1">>]
  /\ lws = [p \in LProcs |-> 0]
  /\ lcur = [p \in LProcs |-> 0]
  /\ lwin = [p \in LProcs |-> 0]
  /\ lprior = [p \in LProcs |-> 0]
  /\ NoRequestInHand
  /\ NoCreateCalls
  /\ NoAux

NextAdmission ==
  \/ \E target \in Targets, auth \in AdmissionHeaders : AReceive(target, auth)
  \/ \E allowed \in BOOLEAN : AGlobalRateLimit(allowed)
  \/ ARateLimit
  \/ ARateLimitRedisError
  \/ AAuthenticate
  \/ AVerifyTenant
  \/ AHandler
  \/ LTick

SpecAdmission == InitAdmission /\ [][NextAdmission]_vars

(***************************************************************************)
(* SpecCreate: concurrent create calls against the customers table, made   *)
(* through POST /api/v1/customers (customers.ts lines 30-62, wrapped in     *)
(* asyncHandler) or through createWithConflictCheck (part_005 463-497).    *)
(***************************************************************************)
\* Slugs asked for: one that a customer has already, two that are free.
Slugs == {"s1", "s3", "s4"}

\* createWithConflictCheck line 476
AlreadyExistsError == <<"record", "with", "this", "value", "already", "exists">>

\* sendCreated / sendConflict / the reply of asyncHandler's catch
RouteResult(status) == [status |-> status, success |-> status = 201, error |-> <<>>]
\* DatabaseResult of createWithConflictCheck
HelperResult(success, error) == [status |-> 0, success |-> success, error |-> error]

\* asyncHandler, part_009 lines 64-90: the status replied for an error the
\* handler threw.
AsyncHandlerStatus(message) == DetermineStatusCode(message)

\* The call starts; nothing is awaited yet.
CBegin(p, via, slug) ==
  /\ cpc[p] = "idle"
  /\ \A q \in CProcs : q < p => cpc[q] # "idle"
  /\ cpc' = [cpc EXCEPT ![p] = "check"]
  /\ cvia' = [cvia EXCEPT ![p] = via]
  /\ cslug' = [cslug EXCEPT ![p] = slug]
  /\ UNCHANGED <<auxVars, now, limVars, reqVars, dbVars, cres>>

\* await notExists(customers, 'slug', slug) / await checkExists(...): the
\* existence pre-check and the branch taken on it.
CCheck(p) ==
  /\ cpc[p] = "check"
  /\ IF NotExists(dbCustomers, cslug[p])
       THEN /\ cpc' = [cpc EXCEPT ![p] = "insert"]
            /\ cres' = cres
       ELSE /\ cpc' = [cpc EXCEPT ![p] = "done"]
            /\ cres' = [cres EXCEPT ![p] =
                          IF cvia[p] = "route" THEN RouteResult(409)
                          ELSE HelperResult(FALSE, AlreadyExistsError)]
  /\ UNCHANGED <<auxVars, now, limVars, reqVars, dbVars, cvia, cslug>>

\* await db.insert(customers).values(...).returning(), and what follows it:
\* sendCreated, or the catch of asyncHandler / of createWithConflictCheck.
CInsert(p) ==
  /\ cpc[p] = "insert"
  /\ LET ins == InsertCustomer(dbCustomers, cslug[p], "created")
     IN /\ dbCustomers' = ins.table
        /\ cres' = [cres EXCEPT ![p] =
                      IF cvia[p] = "route"
                        THEN RouteResult(IF ins.ok THEN 201 ELSE AsyncHandlerStatus(ins.error))
                        ELSE HelperResult(ins.ok, ins.error)]
  /\ cpc' = [cpc EXCEPT ![p] = "done"]
  /\ UNCHANGED <<auxVars, now, limVars, reqVars, dbLeads, cvia, cslug>>

InitCreate ==
  /\ now = 0
  /\ store = <<>> /\ ttl = <<>> /\ hits = <<>> /\ admitted = <<>> /\ last = NoLast
  /\ lpc = [p \in LProcs |-> "done"]
  /\ lkey = [p \in LProcs |-> <<"ip1">>]
  /\ lws = [p \in LProcs |-> 0]
  /\ lcur = [p \in LProcs |-> 0]
  /\ lwin = [p \in LProcs |-> 0]
  /\ lprior = [p \in LProcs |-> 0]
  /\ NoRequestInHand
  /\ NoCreateCalls
  /\ NoAux

NextCreate ==
  \/ \E p \in CProcs, via \in {"route", "helper"}, slug \in Slugs : CBegin(p, via, slug)
  \/ \E p \in CProcs : CCheck(p)
  \/ \E p \in CProcs : CInsert(p)

SpecCreate == InitCreate /\ [][NextCreate]_vars

(***************************************************************************)
(* SpecIngest: the handler of POST /api/v1/leads/ingest/:customerId        *)
(* (leads.ts lines 24-83) called again and again on the leads table.       *)
(***************************************************************************)
\* leadData.externalId of the leads delivered
ExternalIds == {"LEAD-001", "LEAD-002", "LEAD-003"}
\* A customerId that no customer has.
UnknownCustomer == "t9"

IIngest(customerId, externalId) ==
  /\ LET req == Request("ingestLead", customerId, "", externalId, NoHeader)
         out == IngestLead(req, dbCustomers, dbLeads)
     IN /\ rq' = req
        /\ rreply' = Reply(out.status, "")
        /\ dbLeads' = out.leads
        /\ dbCustomers' = out.customers
        /\ touched' = out.touched
  /\ leadsBefore' = dbLeads
  /\ rtrail' = <<"handler">>
  /\ rpc' = "done"
  /\ UNCHANGED <<now, limVars, createVars, provVars, keyVars, moreVars, ruser, rthrown, rhook, nreq>>

InitIngest ==
  /\ now = 0
  /\ store = <<>> /\ ttl = <<>> /\ hits = <<>> /\ admitted = <<>> /\ last = NoLast
  /\ lpc = [p \in LProcs |-> "done"]
  /\ lkey = [p \in LProcs |-> <<"ip1">>]
  /\ lws = [p \in LProcs |-> 0]
  /\ lcur = [p \in LProcs |-> 0]
  /\ lwin = [p \in LProcs |-> 0]
  /\ lprior = [p \in LProcs |-> 0]
  /\ NoRequestInHand
  /\ NoCreateCalls
  /\ NoAux

NextIngest ==
  \E customerId \in Tenants \cup {UnknownCustomer}, externalId \in ExternalIds :
    IIngest(customerId, externalId)

SpecIngest == InitIngest /\ [][NextIngest]_vars

(***************************************************************************)
(* SpecProvision: up to MaxRuns calls of createCustomerSchema for the      *)
(* seeded tenants, step by step and concurrently.                          *)
(* SpecOnboard: tenants are onboarded, provisioned again, updated and      *)
(* deleted, one call at a time.                                            *)
(***************************************************************************)
Db == [customers |-> dbCustomers, schemas |-> schemas, personas |-> personas]
InTransaction(q) == ppc[q] \in {"schema", "persona", "handle", "views"}
RunSlug(q) == SanitizeSlug(Spelling[pargs[q].slug]).slug
Quiet == \A q \in PProcs : ~InTransaction(q)

\* createCustomerSchema, README.md lines 231-233: a call for a tenant of the
\* table with its slug; the transaction opens.
PBegin(p, customerId) ==
  /\ ppc[p] = "idle"
  /\ \A q \in PProcs : q < p => ppc[q] # "idle"
  /\ customerId \in DOMAIN dbCustomers
  /\ pargs' = [pargs EXCEPT ![p] = [customerId |-> customerId,
                                     slug |-> dbCustomers[customerId].slug]]
  /\ IF SanitizeSlug(Spelling[dbCustomers[customerId].slug]).ok
       THEN /\ ppc' = [ppc EXCEPT ![p] = "schema"]
            /\ pres' = pres
       ELSE /\ ppc' = [ppc EXCEPT ![p] = "done"]
            /\ pres' = [pres EXCEPT ![p] = [status |-> "error", at |-> "sanitize"]]
  /\ overlap' = (overlap \/ \E q \in PProcs : InTransaction(q))
  /\ UNCHANGED <<now, limVars, reqVars, dbVars, createVars, leadsBefore, moreVars, keyVars,
                 schemas, personas, former, partial, onboard>>

\* CREATE SCHEMA IF NOT EXISTS and the tables and indexes, customer-schema.sql
\* lines 18-100.  While another transaction holds the schema it created and
\* has not committed, the statement waits.
PCreateSchema(p) ==
  /\ ppc[p] = "schema"
  /\ ~(/\ VSchemaName(RunSlug(p)) \notin schemas
        /\ \E q \in PProcs \ {p} : /\ ppc[q] \in {"persona", "handle", "views"}
                                     /\ RunSlug(q) = RunSlug(p))
  /\ ppc' = [ppc EXCEPT ![p] = "persona"]
  /\ UNCHANGED <<now, limVars, reqVars, dbVars, createVars, leadsBefore, moreVars, keyVars,
                 schemas, personas, former, pargs, pres, overlap, partial, onboard>>

\* INSERT INTO personas, customer-schema.sql lines 103-116
PInsertPersona(p) ==
  /\ ppc[p] = "persona"
  /\ ppc' = [ppc EXCEPT ![p] = "handle"]
  /\ UNCHANGED <<now, limVars, reqVars, dbVars, createVars, leadsBefore, moreVars, keyVars,
                 schemas, personas, former, pargs, pres, overlap, partial, onboard>>

\* UPDATE system.customers SET metadata, customer-schema.sql lines 119-125:
\* waits while another open transaction has updated the same row.
PRecordHandle(p) ==
  /\ ppc[p] = "handle"
  /\ ~\E q \in PProcs \ {p} : /\ ppc[q] = "views"
                                /\ pargs[q].customerId = pargs[p].customerId
  /\ ppc' = [ppc EXCEPT ![p] = "views"]
  /\ UNCHANGED <<now, limVars, reqVars, dbVars, createVars, leadsBefore, moreVars, keyVars,
                 schemas, personas, former, pargs, pres, overlap, partial, onboard>>

\* system.create_customer_analytics_views(schemaName), README.md lines
\* 240-242: the views select from the tables of the schema the TypeScript
\* side names, which are there when it is the one the SQL side made.  Then the
\* transaction commits.
PViewsCommit(p) ==
  /\ ppc[p] = "views"
  /\ LET out == WithTransaction(Db, EffectsUpTo(Db, pargs[p].customerId, RunSlug(p), "done"),
                                TRUE)
     IN /\ SchemaNameFromSlug(Spelling[pargs[p].slug]) \in out.schemas
        /\ dbCustomers' = out.customers
        /\ schemas' = out.schemas
        /\ personas' = out.personas
  /\ ppc' = [ppc EXCEPT ![p] = "done"]
  /\ pres' = [pres EXCEPT ![p] = [status |-> "ok", at |-> ""]]
  /\ UNCHANGED <<now, limVars, reqVars, dbLeads, createVars, leadsBefore, moreVars, keyVars,
                 former, pargs, overlap, partial, onboard>>

\* The statement the run is at throws: the callback rejects, the transaction
\* ends, createCustomerSchema rethrows (README.md lines 245-248).
PFail(p) ==
  /\ InTransaction(p)
  /\ LET out == WithTransaction(Db, EffectsUpTo(Db, pargs[p].customerId, RunSlug(p), ppc[p]),
                                FALSE)
     IN /\ dbCustomers' = out.customers
        /\ schemas' = out.schemas
        /\ personas' = out.personas
  /\ ppc' = [ppc EXCEPT ![p] = "done"]
  /\ pres' = [pres EXCEPT ![p] = [status |-> "error", at |-> ppc[p]]]
  /\ UNCHANGED <<now, limVars, reqVars, dbLeads, createVars, leadsBefore, moreVars, keyVars,
                 former, pargs, overlap, partial, onboard>>

\* The step of createCustomerSchema that throws in an onboarding call.
Faults == {"none", "persona", "views"}

\* createCustomerSchema, README.md lines 231-250, run from start to end.
CreateCustomerSchema(d, customerId, slug, fault) ==
  LET sane == SanitizeSlug(Spelling[slug])
      reached == IF fault = "none" THEN "done" ELSE fault
  IN IF ~sane.ok THEN [ok |-> FALSE, db |-> d]
     ELSE [ok |-> fault = "none",
           db |-> WithTransaction(d, EffectsUpTo(d, customerId, sane.slug, reached),
                                  fault = "none")]

\* INSERT INTO system.customers, part_003 lines 70-88 and 122-141; slug is
\* UNIQUE (part_002 line 39); the id is one no row has had.
InsertSystemCustomer(customers, formerRows, slug) ==
  LET id == CustomerIds[Cardinality(DOMAIN customers \cup DOMAIN formerRows) + 1]
  IN IF ~NotExists(customers, slug)
       THEN [ok |-> FALSE, id |-> "", table |-> customers]
       ELSE [ok |-> TRUE, id |-> id,
             table |-> [c \in DOMAIN customers \cup {id} |->
                          IF c = id THEN CustomerRow(slug, "onboarded", TRUE)
                          ELSE customers[c]]]

\* The rest of an onboarding once the tenant row is written: the schema,
\* then a key for tenants of ingestion mode 'api' (part_003 lines 93-106 and
\* 146-158).  The audit_log row of createCustomer is not followed.
SchemaThenKey(d, keys, issued, customerId, data, fault) ==
  LET prov == CreateCustomerSchema(d, customerId, data.slug, fault)
      key == CreateApiKey(keys, issued, customerId, NullTime)
  IN IF ~prov.ok
       THEN [ok |-> FALSE, db |-> prov.db, keys |-> keys, issued |-> issued, apiKey |-> {}]
     ELSE IF data.ingestionMode = "api"
       THEN [ok |-> TRUE, db |-> prov.db, keys |-> key.keys, issued |-> issued + 1,
             apiKey |-> {key.result.key}]
       ELSE [ok |-> TRUE, db |-> prov.db, keys |-> keys, issued |-> issued, apiKey |-> {}]

\* What an onboarding call gives back and what it writes with console.log:
\* the plaintext keys among them.
Gives(out, returned, logged) ==
  [ok |-> out.ok, db |-> out.db, keys |-> out.keys, issued |-> out.issued,
   returned |-> returned, logged |-> logged]

\* createSeedCustomer, part_003 lines 54-110.  It returns nothing; line 102
\* writes apiKey.key to the console.
CreateSeedCustomer(d, formerRows, keys, issued, data, fault) ==
  LET ins == InsertSystemCustomer(d.customers, formerRows, data.slug)
      out == SchemaThenKey([d EXCEPT !.customers = ins.table], keys, issued, ins.id,
                           data, fault)
  IN IF FindBySlug(d.customers, data.slug) # {}
       THEN [ok |-> TRUE, db |-> d, keys |-> keys, issued |-> issued,
             returned |-> {}, logged |-> {}]
       ELSE Gives(out, {}, out.apiKey)

\* createCustomer, part_003 lines 115-176.  It returns {customerId, apiKey}
\* and writes no key to the console.
CreateCustomerWithSchema(d, formerRows, keys, issued, data, fault) ==
  LET ins == InsertSystemCustomer(d.customers, formerRows, data.slug)
      out == SchemaThenKey([d EXCEPT !.customers = ins.table], keys, issued, ins.id,
                           data, fault)
  IN IF ~ins.ok
       THEN [ok |-> FALSE, db |-> d, keys |-> keys, issued |-> issued,
             returned |-> {}, logged |-> {}]
       ELSE Gives(out, out.apiKey, {})

HandleOf(customers, id) == customers[id].metadata.schema_name
Provisioned(d, slug) ==
  \E id \in FindBySlug(d.customers, slug) :
    /\ HandleOf(d.customers, id) # <<>>
    /\ HandleOf(d.customers, id) \in d.schemas

OnboardSlugs == {"a-b"}
IngestionModes == {"email", "api"}
SeedData == {[slug |-> slug, ingestionMode |-> m] : slug \in OnboardSlugs, m \in IngestionModes}

\* An onboarding call runs while no provisioning call is under way.
Onboarded(op, data, fault, out) ==
  /\ Quiet
  /\ \/ ~NotExists(dbCustomers, data.slug) /\ fault = "none"
     \/ /\ NotExists(dbCustomers, data.slug)
        /\ Cardinality(DOMAIN dbCustomers \cup DOMAIN former)
             < Cardinality(DOMAIN SeedCustomers) + MaxOnboard
  /\ dbCustomers' = out.db.customers
  /\ schemas' = out.db.schemas
  /\ personas' = out.db.personas
  /\ apiKeys' = out.keys
  /\ nkeys' = out.issued
  /\ onboard' = [op |-> op, slug |-> data.slug, retry |-> data.slug \in partial,
                  fault |-> fault, ok |-> out.ok,
                  provisioned |-> Provisioned(out.db, data.slug),
                  returned |-> out.returned, logged |-> out.logged]
  /\ partial' = IF Provisioned(out.db, data.slug) THEN partial \ {data.slug}
                ELSE IF ~out.ok /\ NotExists(dbCustomers, data.slug)
                  THEN partial \cup {data.slug}
                ELSE partial
  /\ UNCHANGED <<now, limVars, reqVars, dbLeads, createVars, leadsBefore, moreVars, kcall,
                 former, ppc, pargs, pres, overlap>>

\* createCustomerSchema called for a tenant of the table with its slug.
OProvision(id, fault) ==
  /\ Quiet
  /\ \A n \in DOMAIN personas : personas[n] < MaxPersonas
  /\ LET out == CreateCustomerSchema(Db, id, dbCustomers[id].slug, fault)
     IN /\ dbCustomers' = out.db.customers
        /\ schemas' = out.db.schemas
        /\ personas' = out.db.personas
        /\ onboard' = [op |-> "createCustomerSchema", slug |-> dbCustomers[id].slug,
                        retry |-> dbCustomers[id].slug \in partial,
                        fault |-> fault, ok |-> out.ok,
                        provisioned |-> Provisioned(out.db, dbCustomers[id].slug),
                        returned |-> {}, logged |-> {}]
        /\ partial' = IF out.ok THEN partial \ {dbCustomers[id].slug} ELSE partial
  /\ UNCHANGED <<now, limVars, reqVars, dbLeads, createVars, leadsBefore, moreVars, keyVars,
                 former, ppc, pargs, pres, overlap>>

OCreateSeedCustomer(data, fault) ==
  Onboarded("createSeedCustomer", data, fault,
            CreateSeedCustomer(Db, former, apiKeys, nkeys, data, fault))

OCreateCustomer(data, fault) ==
  Onboarded("createCustomer", data, fault,
            CreateCustomerWithSchema(Db, former, apiKeys, nkeys, data, fault))

\* PATCH /api/v1/customers/:id, past its preHandler.
OUpdateCustomer(id, body) ==
  /\ Quiet
  /\ LET req == Request("updateCustomer", "", id, body, NoHeader)
         out == UpdateCustomer(req, dbCustomers, dbLeads)
     IN /\ out.customers # dbCustomers
        /\ dbCustomers' = out.customers
  /\ UNCHANGED <<now, limVars, reqVars, dbLeads, createVars, auxVars>>

\* DELETE FROM system.customers WHERE id: the row goes, and with it the rows
\* that reference it ON DELETE CASCADE (part_002 line 59, schema.ts line 51).
\* Nothing drops the tenant's schema.
ODeleteCustomer(id) ==
  /\ Quiet
  /\ id \in DOMAIN dbCustomers
  /\ former' = [c \in DOMAIN former \cup {id} |->
                  IF c = id THEN dbCustomers[id] ELSE former[c]]
  /\ dbCustomers' = [c \in DOMAIN dbCustomers \ {id} |-> dbCustomers[c]]
  /\ dbLeads' = [l \in {k \in DOMAIN dbLeads : dbLeads[k].customerId # id} |-> dbLeads[l]]
  /\ apiKeys' = [k \in {j \in DOMAIN apiKeys : apiKeys[j].customerId # id} |-> apiKeys[k]]
  /\ partial' = partial \ {dbCustomers[id].slug}
  /\ UNCHANGED <<now, limVars, reqVars, createVars, leadsBefore, moreVars, nkeys, kcall,
                 schemas, personas, ppc, pargs, pres, overlap, onboard>>

InitProvision ==
  /\ now = 0
  /\ store = <<>> /\ ttl = <<>> /\ hits = <<>> /\ admitted = <<>> /\ last = NoLast
  /\ lpc = [p \in LProcs |-> "done"]
  /\ lkey = [p \in LProcs |-> <<"ip1">>]
  /\ lws = [p \in LProcs |-> 0]
  /\ lcur = [p \in LProcs |-> 0]
  /\ lwin = [p \in LProcs |-> 0]
  /\ lprior = [p \in LProcs |-> 0]
  /\ dbCustomers = SeedCustomers
  /\ dbLeads = SeedLeads
  /\ NoRequestInHand
  /\ NoCreateCalls
  /\ NoAux

NextProvision ==
  \/ \E p \in PProcs, customerId \in DOMAIN dbCustomers : PBegin(p, customerId)
  \/ \E p \in PProcs : PCreateSchema(p)
  \/ \E p \in PProcs : PInsertPersona(p)
  \/ \E p \in PProcs : PRecordHandle(p)
  \/ \E p \in PProcs : PViewsCommit(p)
  \/ \E p \in PProcs : PFail(p)

SpecProvision == InitProvision /\ [][NextProvision]_vars

\* The calls that follow an onboarding are made for the tenants onboarded.
Onboardees == DOMAIN dbCustomers \ DOMAIN SeedCustomers

NextOnboard ==
  \/ \E data \in SeedData, fault \in Faults : OCreateSeedCustomer(data, fault)
  \/ \E data \in SeedData, fault \in Faults : OCreateCustomer(data, fault)
  \/ \E id \in Onboardees, fault \in Faults : OProvision(id, fault)
  \/ \E id \in Onboardees, body \in {"renamed", MetadataBody} : OUpdateCustomer(id, body)
  \/ \E id \in Onboardees : ODeleteCustomer(id)

SpecOnboard == InitProvision /\ [][NextOnboard]_vars

(***************************************************************************)
(* SpecKeys: up to MaxKeys keys are issued to a seeded tenant and          *)
(* validated while the clock advances, keys are revoked and tenants        *)
(* deactivated.                                                            *)
(***************************************************************************)
MaxKeys == 1
\* The clock runs over 0 .. MaxKeyTicks ticks.
MaxKeyTicks == 2
\* expiresAt of a key issued: none, or one tick past the start.
Expiries == {NullTime, TickMs}

\* createApiKey({customerId, name, expiresAt})
KCreateApiKey(customerId, expiresAt) ==
  /\ nkeys < MaxKeys
  /\ customerId \in DOMAIN dbCustomers
  /\ apiKeys' = CreateApiKey(apiKeys, nkeys, customerId, expiresAt).keys
  /\ nkeys' = nkeys + 1
  /\ UNCHANGED <<now, limVars, reqVars, dbVars, createVars, leadsBefore, moreVars, provVars, kcall>>

\* The row of the n-th key issued, if it is in the table.
RowOfKey(n) == {k \in DOMAIN apiKeys : apiKeys[k].keyHash = HashApiKey(GenerateApiKey(n))}

\* validateApiKey(key) for the n-th key drawn; n = nkeys + 1 is a key that
\* was never issued.  updateFails: the UPDATE of last_used_at raises.
KValidate(n, updateFails) ==
  /\ LET out == ValidateApiKey(apiKeys, dbCustomers, GenerateApiKey(n), now, updateFails)
         row == apiKeys[CHOOSE k \in RowOfKey(n) : TRUE]
     IN /\ apiKeys' = out.keys
        /\ kcall' = [key |-> GenerateApiKey(n), at |-> now, fault |-> updateFails,
                      thrown |-> out.thrown, found |-> out.found,
                      customerId |-> out.customerId, isValid |-> out.isValid,
                      issued |-> RowOfKey(n) # {},
                      owner |-> IF RowOfKey(n) # {} THEN row.customerId ELSE "",
                      revoked |-> RowOfKey(n) # {} /\ ~row.isActive,
                      expiresAt |-> IF RowOfKey(n) # {} THEN row.expiresAt ELSE NullTime,
                      tenantActive |-> RowOfKey(n) # {} /\ dbCustomers[row.customerId].isActive]
  /\ UNCHANGED <<now, limVars, reqVars, dbVars, createVars, leadsBefore, moreVars, provVars, nkeys>>

\* Revocation: UPDATE system.api_keys SET is_active = false WHERE id.
KRevoke(id) ==
  /\ id \in DOMAIN apiKeys
  /\ apiKeys[id].isActive
  /\ apiKeys' = [apiKeys EXCEPT ![id].isActive = FALSE]
  /\ UNCHANGED <<now, limVars, reqVars, dbVars, createVars, leadsBefore, moreVars, provVars, nkeys, kcall>>

\* Deactivation: UPDATE system.customers SET is_active = false WHERE id.
KDeactivate(customerId) ==
  /\ customerId \in DOMAIN dbCustomers
  /\ dbCustomers[customerId].isActive
  /\ dbCustomers' = [dbCustomers EXCEPT ![customerId].isActive = FALSE]
  /\ UNCHANGED <<now, limVars, reqVars, dbLeads, createVars, auxVars>>

\* CURRENT_TIMESTAMP advances.
KTick ==
  /\ now < MaxKeyTicks * TickMs
  /\ now' = now + TickMs
  /\ UNCHANGED <<limVars, reqVars, dbVars, createVars, auxVars>>

NextKeys ==
  \/ \E customerId \in {"t1"}, expiresAt \in Expiries : KCreateApiKey(customerId, expiresAt)
  \/ \E n \in 1 .. (nkeys + 1), updateFails \in BOOLEAN : KValidate(n, updateFails)
  \/ \E id \in DOMAIN apiKeys : KRevoke(id)
  \/ \E customerId \in {"t1"} : KDeactivate(customerId)
  \/ KTick

SpecKeys == InitProvision /\ [][NextKeys]_vars

(***************************************************************************)
(* SpecLimiter: 2 * maxRequests requests run the limiter concurrently.     *)
(***************************************************************************)
InitLimiter ==
  /\ now = 0
  /\ store = <<>>
  /\ ttl = <<>>
  /\ lpc = [p \in LProcs |-> "idle"]
  /\ lkey = [p \in LProcs |-> <<"ip1">>]
  /\ lws = [p \in LProcs |-> 0]
  /\ lcur = [p \in LProcs |-> 0]
  /\ lwin = [p \in LProcs |-> 0]
  /\ lprior = [p \in LProcs |-> 0]
  /\ hits = <<>>
  /\ admitted = <<>>
  /\ last = NoLast
  /\ NoRequestInHand
  /\ NoCreateCalls
  /\ NoAux

NextLimiter ==
  \/ \E p \in LProcs, k \in Keys : LBegin(p, k)
  \/ \E p \in LProcs : LIncr(p)
  \/ \E p \in LProcs : LExpire(p)
  \/ \E p \in LProcs : LRedisError(p)
  \/ LTick

SpecLimiter == InitLimiter /\ [][NextLimiter]_vars

(***************************************************************************)
(* Claims about the rate limiter, checked under SpecLimiter.               *)
(***************************************************************************)
Served(r) == r.key # <<>>
\* The request was handled, INCR to reply, inside the window it arrived in.
InItsWindow(r) == Served(r) /\ WindowOf(r.at) = r.win

\* C6: while a window is current, at most maxRequests of the requests made
\* for one key in it have been admitted with the counter store reachable,
\* whatever the order in which their INCR and EXPIRE calls landed.
C6_NoRacePastQuota ==
  \A hk \in DOMAIN admitted :
    hk[2] = WindowOf(now) => admitted[hk] <= maxRequests

\* C6 witness: 2 * maxRequests requests for one key were all counted and
\* answered in the current window, the one counted first being answered last
\* (the others overtook it between its INCR and its EXPIRE), and exactly
\* maxRequests of them were admitted.
C6_Witness ==
  /\ \A p \in LProcs : lpc[p] = "done"
  /\ last.win = WindowOf(now) /\ ~last.fail /\ last.prior = 0
  /\ Count(hits, <<last.key, last.win>>) = 2 * maxRequests
  /\ Count(admitted, <<last.key, last.win>>) = maxRequests

\* C7: a request handled inside its window with the store reachable is
\* admitted exactly when fewer than maxRequests requests of its key were
\* counted in that window before it: request maxRequests + 1 is denied, and
\* the first request of the next window is admitted again.
C7_FixedWindowLaw ==
  (InItsWindow(last) /\ ~last.fail) =>
    (last.result.allowed <=> last.prior < maxRequests)

\* C7 witness: the first request of the second window is admitted after the
\* first window admitted maxRequests requests and denied one.
C7_Witness ==
  /\ InItsWindow(last) /\ ~last.fail
  /\ last.win = 1 /\ last.prior = 0 /\ last.result.allowed
  /\ Count(admitted, <<last.key, 0>>) = maxRequests
  /\ Count(hits, <<last.key, 0>>) > maxRequests

\* C9: a request during which a Redis call failed is admitted and gets no
\* 429, however many requests its window had counted.
C9_FailOpen ==
  (Served(last) /\ last.fail) =>
    (last.result.allowed /\ last.reply.status # 429)

\* C9 witness: a Redis call fails for a request whose window has already
\* counted maxRequests requests or more.
C9_Witness ==
  /\ InItsWindow(last) /\ last.fail
  /\ Count(hits, <<last.key, last.win>>) > maxRequests
  /\ last.result.allowed

(***************************************************************************)
(* Claims about credential verification, checked under SpecVerify.         *)
(***************************************************************************)
\* The request presents "Bearer <token>".
PresentsBearer == rq.auth.present /\ rq.auth.parts = 2 /\ rq.auth.scheme = "Bearer"
PresentedPayload == rq.auth.token.payloadPart.payload
SignedByServer ==
  rq.auth.token.signature = Hmac(ServerSecret, rq.auth.token.payloadPart)
SignedWithOtherSecret ==
  rq.auth.token.signature = Hmac(OtherSecret, rq.auth.token.payloadPart)
SignatureFlipped ==
  rq.auth.token.signature = Flip(Hmac(ServerSecret, rq.auth.token.payloadPart))
\* The exp claim, in seconds, lies at least one second before the clock.
ExpiredByOneSecond ==
  /\ rq.auth.token.payloadPart.json
  /\ PresentedPayload.hasExp
  /\ (PresentedPayload.exp + 1) * MsPerSec <= now
\* No exp claim, or one that the clock has not reached.
Unexpired ==
  PresentedPayload.hasExp => PresentedPayload.exp * MsPerSec > now
AuthenticateRan == rtrail # <<>> /\ rtrail[1] = "authenticate"
MiddlewareRan == rtrail # <<>>

\* C4: once authenticate has run on a Bearer token that is signed with
\* another secret, or has one signature byte changed, or expired at least one
\* second ago, the reply is 401 and no error was thrown to Fastify.
C4_BadTokenUnauthorized ==
  (AuthenticateRan /\ PresentsBearer
     /\ (SignedWithOtherSecret \/ SignatureFlipped \/ ExpiredByOneSecond)) =>
    (rreply.status = 401 /\ rthrown = "")

Ran(name) == \E i \in 1 .. Len(rtrail) : rtrail[i] = name
HandlerRan == Ran("handler")
\* The request carries a verified identity scoped to a tenant.
IdentityTenant == ruser.payload.tenantId
HasTenantIdentity == ruser.attached /\ ruser.payload.hasTenant

\* C1: a request whose verified identity has tenantId A and whose path
\* carries customerId B, A # B, is never answered 401 and never reaches its
\* handler; once verifyTenant has run on it the answer is 403.
C1_MismatchForbidden ==
  (HasTenantIdentity /\ rq.customerId # "" /\ IdentityTenant # rq.customerId) =>
    /\ rreply.status # 401
    /\ ~HandlerRan
    /\ (Ran("verifyTenant") => (rpc = "done" /\ rreply.status = 403))

\* C1 witness: identity t2 asked for the leads of customer t1 and was
\* answered 403 by verifyTenant.
C1_Witness ==
  /\ HasTenantIdentity /\ IdentityTenant = "t2" /\ rq.customerId = "t1"
  /\ rq.route = "listLeads"
  /\ Ran("verifyTenant") /\ rreply.status = 403 /\ rpc = "done"

\* C2: a route handler has run only for a request that the rate limiter
\* admitted, whose credential was then verified, and that then passed the
\* tenant guard when its path carries a customerId.
C2_HandlerOnlyAfterPipeline ==
  HandlerRan =>
    /\ Ran("globalRateLimit")
    /\ Ran("authenticate") /\ ruser.attached
    /\ (rq.customerId # "" => Ran("verifyTenant"))

\* C3: the records a handler returned or changed for a request with a
\* tenant-scoped identity all belong to that tenant.
C3_NoCrossTenantAccess ==
  HasTenantIdentity => touched \subseteq {IdentityTenant}

\* C8: credential verification runs only after every limiter that applies
\* to the request has run, and never for a request a limiter answered 429.
C8_LimiterBeforeCredential ==
  /\ Ran("authenticate") =>
       /\ rhook > Len(LimiterHooks(rq.route))
       /\ \A i \in 1 .. Len(rtrail) :
            rtrail[i] = "authenticate" => i > 1 + Len(LimiterHooks(rq.route))
       /\ \A i \in 1 .. (1 + Len(LimiterHooks(rq.route))) :
            rtrail[i] \in {"globalRateLimit", "rateLimit"}
  /\ rreply.status = 429 => (~Ran("authenticate") /\ ~ruser.attached)

\* C8 witness: a request with a valid token, to a route that authenticates,
\* was answered 429 by the route limiter after the quota was used up.
C8_Witness ==
  /\ rreply.status = 429 /\ rpc = "done"
  /\ rtrail = <<"globalRateLimit", "rateLimit">>
  /\ rq.route = "createCustomer"
  /\ VerifyJwt(rq.auth.token, ServerSecret, now).ok
  /\ nreq = maxRequests + 1

(***************************************************************************)
(* Claims about concurrent creates, checked under SpecCreate.              *)
(***************************************************************************)
\* The slug was free when the calls started.
FreeAtStart(slug) == \A id \in DOMAIN SeedCustomers : SeedCustomers[id].slug # slug
\* Two distinct calls through the route, for the same free slug, both done.
RacedPair(p, q) ==
  /\ p # q
  /\ cpc[p] = "done" /\ cpc[q] = "done"
  /\ cvia[p] = "route" /\ cvia[q] = "route"
  /\ cslug[p] = cslug[q] /\ FreeAtStart(cslug[p])

\* C10: of two calls to POST /api/v1/customers for the same free slug, once
\* both have returned, one returned 201 and the other 409.
C10_OneCreatedOtherConflict ==
  \A p, q \in CProcs :
    RacedPair(p, q) => {cres[p].status, cres[q].status} = {201, 409}

(***************************************************************************)
(* Claims about lead ingestion, checked under SpecIngest.                  *)
(***************************************************************************)
\* The ingest handler has just run for a customer that exists.
IngestRan == rq.route = "ingestLead" /\ HandlerRan /\ rq.customerId \in DOMAIN dbCustomers
\* The tenant had a lead with this externalId before the call.
HadLead(customerId, externalId) ==
  \E id \in DOMAIN leadsBefore :
    leadsBefore[id].customerId = customerId /\ leadsBefore[id].externalId = externalId
\* C11: an ingest call for a tenant that already has a lead with the same
\* externalId is answered 409 and stores nothing; an ingest call for a tenant
\* that has none is answered 201 and stores one lead, whether or not another
\* tenant has a lead with that externalId.
C11_DuplicateLeadConflict ==
  IngestRan =>
    IF HadLead(rq.customerId, rq.body)
      THEN rreply.status = 409 /\ dbLeads = leadsBefore
      ELSE /\ rreply.status = 201
           /\ Cardinality(DOMAIN dbLeads) = Cardinality(DOMAIN leadsBefore) + 1

(***************************************************************************)
(* Provisioning and onboarding                                             *)
(***************************************************************************)
Committed(p) == pres[p].status = "ok"
SameTenant(p, q) == pargs[p].customerId = pargs[q].customerId
RunSchema(p) == VSchemaName(RunSlug(p))
DefaultPersonas(name) == IF name \in DOMAIN personas THEN personas[name] ELSE 0

\* C12: when two provisioning runs for the same tenant have completed one
\* after the other, the tenant's namespace exists and holds exactly one
\* default persona: the second run added none.
C12_SecondRunAddsNothing ==
  \A p, q \in PProcs :
    (p < q /\ ~overlap /\ Committed(p) /\ Committed(q) /\ SameTenant(p, q)) =>
      /\ RunSchema(p) \in schemas
      /\ DefaultPersonas(RunSchema(p)) = 1

\* C13: when two provisioning runs for the same tenant ran concurrently and
\* both completed, the state is that of a single run: the namespace exists,
\* it holds one default persona, and the tenant's handle names it.
C13_ConcurrentRunsAsOne ==
  \A p, q \in PProcs :
    (p < q /\ overlap /\ Committed(p) /\ Committed(q) /\ SameTenant(p, q)) =>
      /\ RunSchema(p) \in schemas
      /\ DefaultPersonas(RunSchema(p)) = 1
      /\ HandleOf(dbCustomers, pargs[p].customerId) = RunSchema(p)

\* C14: a provisioning attempt in which a step failed has ended in an error,
\* and as long as no attempt for the tenant has completed, the tenant's
\* namespace handle is unset.
Failed(p) == pres[p].at \in {"schema", "persona", "handle", "views"}
C14_FailedAttemptLeavesHandleUnset ==
  \A p \in PProcs :
    Failed(p) =>
      /\ pres[p].status = "error"
      /\ ppc[p] = "done"
      /\ (\A q \in PProcs : SameTenant(p, q) => ~Committed(q)) =>
           HandleOf(dbCustomers, pargs[p].customerId) = <<>>
\* An attempt failed at its last step, after the statement that records the
\* handle had run, and the handle is unset.
C14_Witness ==
  \E p \in PProcs :
    /\ pres[p] = [status |-> "error", at |-> "views"]
    /\ HandleOf(dbCustomers, pargs[p].customerId) = <<>>

\* C15: an onboarding operation run again, without a failing step, for a slug
\* whose earlier onboarding failed after the tenant row was written ends
\* without error and leaves the tenant provisioned, its handle set.
OnboardingRetried ==
  /\ onboard.op \in {"createSeedCustomer", "createCustomer"}
  /\ onboard.retry
  /\ onboard.fault = "none"
C15_RetryCompletesOnboarding == OnboardingRetried => (onboard.ok /\ onboard.provisioned)

\* C16: no two tenants, deleted ones included, have the same namespace
\* handle.
EverCustomers ==
  [id \in DOMAIN dbCustomers \cup DOMAIN former |->
     IF id \in DOMAIN dbCustomers THEN dbCustomers[id] ELSE former[id]]
C16_HandleNeverShared ==
  \A a, b \in DOMAIN EverCustomers :
    (a # b /\ HandleOf(EverCustomers, a) # <<>>) =>
      HandleOf(EverCustomers, a) # HandleOf(EverCustomers, b)

\* C17: a step that finds a tenant's namespace handle recorded, and leaves
\* the tenant in the table, leaves the handle as it was.
C17_HandleImmutable ==
  [][\A id \in DOMAIN dbCustomers :
       (HandleOf(dbCustomers, id) # <<>> /\ id \in DOMAIN dbCustomers') =>
         dbCustomers'[id].metadata.schema_name = HandleOf(dbCustomers, id)]_vars

(***************************************************************************)
(* API keys                                                                *)
(***************************************************************************)
\* The last validateApiKey call was for a key createApiKey issued, and the
\* UPDATE of last_used_at did not fail in it.
ValidatedIssuedKey == kcall.issued /\ ~kcall.fault
UnexpiredAtCall == kcall.expiresAt = NullTime \/ kcall.at < kcall.expiresAt

C20_BookkeepingFailureTolerated ==
  (kcall.issued /\ kcall.fault /\ ~kcall.revoked /\ UnexpiredAtCall /\ kcall.tenantActive) =>
    (~kcall.thrown /\ kcall.isValid)

\* The rows of system.api_keys whose key the request presents as its
\* credential.
PresentedKeyRows ==
  {k \in DOMAIN apiKeys :
     \E n \in 1 .. nkeys : /\ rq.auth.present /\ rq.auth.parts = 2
                           /\ rq.auth.token = OpaqueToken(GenerateApiKey(n))
                           /\ apiKeys[k].keyHash = HashApiKey(GenerateApiKey(n))}

\* C19: once the credential middleware has run on a request presenting an
\* API key that is active, unexpired and owned by an active tenant, it has
\* neither answered 401 nor thrown UnauthorizedError, and request.user
\* carries the owning tenant as tenantId.
C19_ApiKeyAdmitted ==
  \A k \in PresentedKeyRows :
    (MiddlewareRan /\ IsValid(apiKeys[k], dbCustomers[apiKeys[k].customerId], now)) =>
      /\ rreply.status # 401
      /\ rthrown # "UnauthorizedError"
      /\ ruser.attached
      /\ ruser.payload.hasTenant
      /\ ruser.payload.tenantId = apiKeys[k].customerId


\* The counter keys a request has created with INCR and has yet to give
\* their expiry: the request stands between line 21 and line 25.
AwaitingExpire ==
  {RedisKey(lkey[p], lws[p]) : p \in {q \in LProcs : lpc[q] = "expire"}}

\* C26: every counter in the store has an expiry, or the request that
\* created it is still on its way to set one; also after the creating
\* request has failed between its INCR and its EXPIRE.
C26_EveryCounterExpires ==
  \A rk \in DOMAIN store : rk \in DOMAIN ttl \/ rk \in AwaitingExpire

\* C28: every 429 reply carries a retryAfter of at least one second and at
\* most one window, whenever the clock is read for the reply.
C28_RetryAfterWithinWindow ==
  last.reply.status = 429 =>
    /\ last.reply.retryAfter >= 1
    /\ last.reply.retryAfter <= CeilDiv(windowMs, MsPerSec)


\* A step that is a validateApiKey call: only that call writes kcall.
ValidateStep == kcall' # kcall

\* C27: a validateApiKey call leaves the customers, the leads and the set of
\* API key rows as they were, and changes a row only by setting lastUsedAt
\* of a row matching the presented key to the time of the call, and only
\* when the call reports the key valid.
C27_ValidationTouchesOnlyLastUsed ==
  [][ValidateStep =>
       /\ dbCustomers' = dbCustomers /\ dbLeads' = dbLeads
       /\ DOMAIN apiKeys' = DOMAIN apiKeys
       /\ \A k \in DOMAIN apiKeys :
            apiKeys'[k] # apiKeys[k] =>
              /\ kcall'.isValid
              /\ apiKeys[k].keyHash = HashApiKey(kcall'.key)
              /\ apiKeys'[k] = [apiKeys[k] EXCEPT !.lastUsedAt = kcall'.at]]_vars


(***************************************************************************)
(* Further claims about credential verification, checked under SpecVerify. *)
(***************************************************************************)
\* What the credential middleware named makes of a request with the given
\* Authorization header, on the path and at the time of the request in
\* hand: the reply it sends, or the name and message of the error it throws.
CredentialOutcome(middleware, header) ==
  IF middleware = "authenticate"
    THEN Authenticate(header, now).reply
  ELSE IF middleware = "authenticateTokenReply"
    THEN AuthenticateTokenReply(header, rq.customerId, now).reply
  ELSE LET a == AuthenticateToken(header, rq.customerId, now)
       IN ReplyWith(0, a.thrown, a.message)
\* The outcome is the unauthorized one.
Unauthorized(outcome) == outcome.status = 401 \/ outcome.error = "UnauthorizedError"
\* The outcome of the request in hand, from what the middleware left.
OutcomeInHand ==
  IF rthrown # ""
    THEN ReplyWith(0, rthrown, AuthenticateToken(rq.auth, rq.customerId, now).message)
    ELSE rreply

\* C21: once a credential middleware has refused the request in hand as
\* unauthorized, every other header it refuses as unauthorized gets the same
\* status, error and message.
C21_FailuresIndistinguishable ==
  (MiddlewareRan /\ Unauthorized(OutcomeInHand)) =>
    \A h \in Headers :
      Unauthorized(CredentialOutcome(rtrail[1], h)) =>
        CredentialOutcome(rtrail[1], h) = OutcomeInHand

\* The nbf claim of the presented token lies after the clock, in seconds.
NotYetValid ==
  /\ rq.auth.token.payloadPart.json
  /\ PresentedPayload.hasNbf
  /\ PresentedPayload.nbf > now \div MsPerSec

\* C25: once the credential middleware has run on a Bearer token signed with
\* the server secret whose nbf claim lies in the future, it has answered 401
\* or thrown UnauthorizedError.
C25_NotBeforeRejected ==
  (MiddlewareRan /\ PresentsBearer /\ SignedByServer /\ NotYetValid) =>
    (rreply.status = 401 \/ rthrown = "UnauthorizedError")

\* The credential middleware of the route has let the request pass: the
\* chain ran to its end, sent no reply and threw nothing.
Admitted == rpc = "guarded" /\ rreply.status = 0 /\ rthrown = ""

Resolved == rpc \in {"none", "done"}
\* A step of the pipeline can be taken for the request in hand.
PipelineStep ==
  \/ \E allowed \in BOOLEAN : AGlobalRateLimit(allowed)
  \/ ARateLimit
  \/ ARateLimitRedisError
  \/ AAuthenticate
  \/ AVerifyTenant
  \/ AHandler

\* C24: a request in hand has been answered or has a step of its pipeline
\* left to take, so that it is resolved in the end; a request that
\* authenticate and verifyTenant have passed goes on to its handler.
C24_NoRequestLeftHanging == Resolved \/ ENABLED PipelineStep


(***************************************************************************)
(* Plaintext of API keys, checked under SpecOnboard.                       *)
(***************************************************************************)
\* The plaintext of every key drawn so far.
Plaintexts == {GenerateApiKey(n) : n \in 1 .. nkeys}

\* C23: no row of system.api_keys holds the plaintext of a key in any of its
\* fields, only its hash; and the call that had a key issued has written no
\* plaintext to the console: the key is in its return value or nowhere.
C23_PlaintextOnlyReturned ==
  /\ \A k \in DOMAIN apiKeys :
       /\ apiKeys[k].keyHash \notin Plaintexts
       /\ apiKeys[k].customerId \notin Plaintexts
       /\ \E key \in Plaintexts : apiKeys[k].keyHash = HashApiKey(key)
  /\ onboard.logged \cap Plaintexts = {}


(***************************************************************************)
(* SpecFamilies: the limiters of two route families, both keyed on the     *)
(* client's address, charged one request at a time against the shared      *)
(* Redis store (rate-limit.ts lines 16-38 and 66-111).                     *)
(***************************************************************************)
\* How many requests are charged in a run.
MaxCharges == 4

\* rateLimiters.customerCreation and rateLimiters.webhooks: req.ip is the
\* key of both.
Families == {"customerCreation", "webhooks"}

\* config.windowMs and config.maxRequests of a family.  The shipped windows
\* are one hour and one minute, the quotas 10 and 200; the model keeps the
\* longer window a multiple of the shorter and the quotas apart.
FamilyWindowMs(family) ==
  IF family = "customerCreation" THEN 2 * windowMs ELSE windowMs
FamilyMaxRequests(family) ==
  IF family = "customerCreation" THEN maxRequests ELSE maxRequests + 1

\* isAllowed line 17 with the family's config.
FamilyWindowStart(family, t) ==
  (t \div FamilyWindowMs(family)) * FamilyWindowMs(family)

\* isAllowed lines 28-32 with the family's config.
FamilyResult(family, current, windowStart) ==
  [allowed   |-> current <= FamilyMaxRequests(family),
   remaining |-> Max(0, FamilyMaxRequests(family) - current),
   resetTime |-> windowStart + FamilyWindowMs(family)]

\* The one client.
ClientRequest == Request("", "", "", "", NoHeader)

\* Requests charged so far, over all families.
RECURSIVE SumOver(_, _)
SumOver(f, dom) ==
  IF dom = {} THEN 0
  ELSE LET x == CHOOSE y \in dom : TRUE IN f[x] + SumOver(f, dom \ {x})
Charges == SumOver(fam.charged, DOMAIN fam.charged)

\* A request is charged to the limiter of a family: isAllowed lines 16-32,
\* the Redis calls succeeding.
FCharge(family) ==
  /\ Charges < MaxCharges
  /\ LET key == LimiterKey(family, ClientRequest)
         windowStart == FamilyWindowStart(family, now)
         rk == RedisKey(key, windowStart)
         current == Count(store, rk) + 1
         mine == <<family, windowStart>>
     IN /\ store' = Incr(store, rk)
        /\ ttl' = IF current = 1
                    THEN Expire(ttl, rk, CeilDiv(FamilyWindowMs(family), MsPerSec), now)
                    ELSE ttl
        /\ fam' = [charged |-> Incr(fam.charged, mine),
                   family |-> family, windowStart |-> windowStart,
                   own |-> Count(fam.charged, mine) + 1,
                   result |-> FamilyResult(family, current, windowStart)]
  /\ UNCHANGED <<now, lpc, lkey, lws, lcur, lwin, lprior, hits, admitted, last,
                 reqVars, dbVars, createVars, leadsBefore, provVars, keyVars, wc>>

NextFamilies ==
  \/ \E family \in Families : FCharge(family)
  \/ LTick

SpecFamilies == InitProvision /\ [][NextFamilies]_vars

\* C22: the result a family's limiter gives a request is the one that
\* follows from the requests charged to that family in its current window:
\* count, remaining and admission owe nothing to another family's requests.
C22_FamiliesIndependent ==
  fam.family # "" =>
    fam.result = FamilyResult(fam.family, fam.own, fam.windowStart)


(***************************************************************************)
(* SpecConcurrency: withConcurrency, src/unnamed/part_009 lines 359-428.   *)
(* Items are numbered from 0 as in the code.  Everything between two       *)
(* awaits runs in one step.                                                *)
(***************************************************************************)
\* items.length and options.concurrency range up to these.
MaxItems == 3
MaxConcurrency == 2

\* What fn resolves with for the item at an index.
ResultOf(i) == <<"result", i>>
\* results[i] before it is assigned: a hole of new Array(items.length).
Hole == <<>>

\* resolve(value) and reject(error): a promise settles once, later calls do
\* nothing.
Resolve(w, value) ==
  IF w.promise.state = "pending"
    THEN [w EXCEPT !.promise = [state |-> "resolved", value |-> value]] ELSE w
Reject(w, error) ==
  IF w.promise.state = "pending"
    THEN [w EXCEPT !.promise = [state |-> "rejected", value |-> error]] ELSE w

\* processNext up to its await, lines 381-395: past the end it counts the
\* chain out and settles when running reaches 0; otherwise it counts the
\* item in and calls fn for it.
ProcessNext(w) ==
  LET currentIndex == w.index
      next == [w EXCEPT !.index = @ + 1]
      out == [next EXCEPT !.running = @ - 1]
  IN IF currentIndex >= w.items
       THEN IF out.running = 0
              THEN IF Len(out.errors) > 0 /\ out.abortOnError
                     THEN Reject(out, out.errors[1])
                     ELSE Resolve(out, out.results)
              ELSE out
       ELSE [next EXCEPT !.running = @ + 1, !.awaiting = @ \cup {currentIndex}]

\* Lines 418-421: the initial batch, one processNext after the other.
RECURSIVE InitialBatch(_, _)
InitialBatch(w, k) == IF k = 0 THEN w ELSE InitialBatch(ProcessNext(w), k - 1)

Min(a, b) == IF a <= b THEN a ELSE b

\* The executor of the promise, lines 380-427.
Executor(items, concurrency, abortOnError) ==
  LET w0 == [NoConcurrencyCall EXCEPT
               !.called = TRUE, !.items = items, !.concurrency = concurrency,
               !.abortOnError = abortOnError,
               !.results = [i \in 0 .. (items - 1) |-> Hole]]
      started == InitialBatch(w0, Min(concurrency, items))
  IN IF items = 0 THEN Resolve(started, <<>>) ELSE started

\* processNext after its await, lines 397-415, for the chain that waits for
\* the item at index i: fn's promise fulfilled (ok) or rejected.
Continue(w, i, ok) ==
  LET landed == [w EXCEPT !.awaiting = @ \ {i}]
      assigned == [landed EXCEPT !.results[i] = ResultOf(i)]
      caught == [landed EXCEPT !.errors = Append(@, <<"error", i>>)]
      after == IF ok THEN assigned ELSE caught
  IN IF ~ok /\ w.abortOnError
       THEN Reject(caught, <<"error", i>>)
       ELSE ProcessNext([after EXCEPT !.completed = @ + 1])

\* withConcurrency(items, fn, {concurrency, abortOnError}) is called.
WCall(items, concurrency, abortOnError) ==
  /\ ~wc.called
  /\ wc' = Executor(items, concurrency, abortOnError)
  /\ UNCHANGED <<now, limVars, reqVars, dbVars, createVars, leadsBefore, provVars,
                 keyVars, fam>>

\* An operation fn started settles, and its chain runs on to its next await.
WSettle(i, ok) ==
  /\ i \in wc.awaiting
  /\ wc' = Continue(wc, i, ok)
  /\ UNCHANGED <<now, limVars, reqVars, dbVars, createVars, leadsBefore, provVars,
                 keyVars, fam>>

NextConcurrency ==
  \/ \E items \in 0 .. MaxItems, concurrency \in 1 .. MaxConcurrency,
        abortOnError \in BOOLEAN : WCall(items, concurrency, abortOnError)
  \/ \E i \in 0 .. (MaxItems - 1), ok \in BOOLEAN : WSettle(i, ok)

SpecConcurrency == InitProvision /\ [][NextConcurrency]_vars

\* Every operation the call started has settled, and none is started after.
AllSettled == wc.called /\ wc.awaiting = {}

\* C30: once every operation the call started has settled, the promise has
\* settled; when no operation failed it is resolved with the results of all
\* the items, each at the index of its item.
C30_SettlesWithAllResults ==
  AllSettled =>
    /\ wc.promise.state # "pending"
    /\ wc.errors = <<>> =>
         /\ wc.promise.state = "resolved"
         /\ wc.promise.value = [i \in 0 .. (wc.items - 1) |-> ResultOf(i)]

=============================================================================
